---- MODULE Spec2Model ----
(***************************************************************************)
(* StegoLab: LSB steganography engine (backend/steganography.py) and its   *)
(* HTTP front (backend/main.py).                                           *)
(*                                                                         *)
(* Bytes are integers 0..255, byte strings are sequences of bytes.  A      *)
(* 32-bit unsigned value (CRC-32, the seed of the shuffle) is kept as its   *)
(* four big-endian bytes, because it does not fit the integers of TLC.     *)
(* An absent password (None) and the empty password behave alike in every  *)
(* line of the source (`if password`, `encrypt and password`); both are    *)
(* the empty string here.                                                  *)
(***************************************************************************)
EXTENDS Integers, Sequences, FiniteSets, TLC

----------------------------------------------------------------------------
(* Bit arithmetic on bytes. *)

Pow2(n) == 2 ^ n

Min(a, b) == IF a < b THEN a ELSE b

\* Python's `(x >> k) & 1`.
BitAt(x, k) == (x \div Pow2(k)) % 2

\* Python's `a ^ b` on half bytes, tabulated: XorNibble[a+1][b+1] = a ^ b.
XorNibble ==
    << << 0, 1, 2, 3, 4, 5, 6, 7, 8, 9, 10, 11, 12, 13, 14, 15 >>,
       << 1, 0, 3, 2, 5, 4, 7, 6, 9, 8, 11, 10, 13, 12, 15, 14 >>,
       << 2, 3, 0, 1, 6, 7, 4, 5, 10, 11, 8, 9, 14, 15, 12, 13 >>,
       << 3, 2, 1, 0, 7, 6, 5, 4, 11, 10, 9, 8, 15, 14, 13, 12 >>,
       << 4, 5, 6, 7, 0, 1, 2, 3, 12, 13, 14, 15, 8, 9, 10, 11 >>,
       << 5, 4, 7, 6, 1, 0, 3, 2, 13, 12, 15, 14, 9, 8, 11, 10 >>,
       << 6, 7, 4, 5, 2, 3, 0, 1, 14, 15, 12, 13, 10, 11, 8, 9 >>,
       << 7, 6, 5, 4, 3, 2, 1, 0, 15, 14, 13, 12, 11, 10, 9, 8 >>,
       << 8, 9, 10, 11, 12, 13, 14, 15, 0, 1, 2, 3, 4, 5, 6, 7 >>,
       << 9, 8, 11, 10, 13, 12, 15, 14, 1, 0, 3, 2, 5, 4, 7, 6 >>,
       << 10, 11, 8, 9, 14, 15, 12, 13, 2, 3, 0, 1, 6, 7, 4, 5 >>,
       << 11, 10, 9, 8, 15, 14, 13, 12, 3, 2, 1, 0, 7, 6, 5, 4 >>,
       << 12, 13, 14, 15, 8, 9, 10, 11, 4, 5, 6, 7, 0, 1, 2, 3 >>,
       << 13, 12, 15, 14, 9, 8, 11, 10, 5, 4, 7, 6, 1, 0, 3, 2 >>,
       << 14, 15, 12, 13, 10, 11, 8, 9, 6, 7, 4, 5, 2, 3, 0, 1 >>,
       << 15, 14, 13, 12, 11, 10, 9, 8, 7, 6, 5, 4, 3, 2, 1, 0 >> >>

XorByte(a, b) ==
    16 * XorNibble[(a \div 16) + 1][(b \div 16) + 1] + XorNibble[(a % 16) + 1][(b % 16) + 1]

\* a ^ b on 32-bit values held as four bytes.
Xor32(a, b) ==
    << XorByte(a[1], b[1]), XorByte(a[2], b[2]), XorByte(a[3], b[3]), XorByte(a[4], b[4]) >>

\* struct.pack('>I', n) for 0 <= n < 2^31.
PackU32(n) ==
    << (n \div 16777216) % 256, (n \div 65536) % 256, (n \div 256) % 256, n % 256 >>

\* struct.unpack('>I', b) where the value is below 2^31 (b[1] < 128).
UnpackU32(b) == b[1] * 16777216 + b[2] * 65536 + b[3] * 256 + b[4]

RECURSIVE Concat(_)
\* b''.join(parts)
Concat(parts) ==
    IF parts = << >> THEN << >> ELSE Head(parts) \o Concat(Tail(parts))

----------------------------------------------------------------------------
(* Folding an operator over a range of integers, in order.  The range is   *)
(* halved so that the evaluation depth is logarithmic in its length; the   *)
(* result is that of the loop `for i in range(lo, hi + 1): acc = Op(acc, i)`. *)

\* The one element of a singleton set.
TheOne(S) == CHOOSE r \in S : TRUE

\* Body applied to the value of v, computed once: a local variable.
Bind(v, Body(_)) == TheOne({ Body(x) : x \in { v } })

RECURSIVE FoldRange(_, _, _, _)
\* (The left half is bound as a value before the right half starts from it.)
FoldRange(Op(_, _), acc, lo, hi) ==
    IF lo > hi THEN acc
    ELSE IF lo = hi THEN Op(acc, lo)
    ELSE LET mid == (lo + hi) \div 2
         IN  TheOne({ FoldRange(Op, left, mid + 1, hi) :
                        left \in { FoldRange(Op, acc, lo, mid) } })

\* sum(f(i) for i in range(lo, hi + 1))
SumRange(f(_), lo, hi) ==
    LET add(acc, i) == acc + f(i) IN FoldRange(add, 0, lo, hi)

\* The sequence [f(1), ..., f(n)], as a tuple.
Tabulate(f(_), n) == [i \in 1..n |-> f(i)] \o << >>

----------------------------------------------------------------------------
(* zlib.crc32: the reflected CRC-32 (polynomial EDB88320), table driven.   *)

\* c >> 8 on a 32-bit value held as four bytes.
Shr8(c) == << 0, c[1], c[2], c[3] >>

\* The table of the byte-wise algorithm: CrcTable[n+1] is the remainder of the
\* byte n, eight steps of `c = (c >> 1) ^ 0xEDB88320 if c & 1 else c >> 1`.
CrcTable ==
    << <<0,0,0,0>>, <<119,7,48,150>>, <<238,14,97,44>>, <<153,9,81,186>>, <<7,109,196,25>>, <<112,106,244,143>>,
       <<233,99,165,53>>, <<158,100,149,163>>, <<14,219,136,50>>, <<121,220,184,164>>, <<224,213,233,30>>, <<151,210,217,136>>,
       <<9,182,76,43>>, <<126,177,124,189>>, <<231,184,45,7>>, <<144,191,29,145>>, <<29,183,16,100>>, <<106,176,32,242>>,
       <<243,185,113,72>>, <<132,190,65,222>>, <<26,218,212,125>>, <<109,221,228,235>>, <<244,212,181,81>>, <<131,211,133,199>>,
       <<19,108,152,86>>, <<100,107,168,192>>, <<253,98,249,122>>, <<138,101,201,236>>, <<20,1,92,79>>, <<99,6,108,217>>,
       <<250,15,61,99>>, <<141,8,13,245>>, <<59,110,32,200>>, <<76,105,16,94>>, <<213,96,65,228>>, <<162,103,113,114>>,
       <<60,3,228,209>>, <<75,4,212,71>>, <<210,13,133,253>>, <<165,10,181,107>>, <<53,181,168,250>>, <<66,178,152,108>>,
       <<219,187,201,214>>, <<172,188,249,64>>, <<50,216,108,227>>, <<69,223,92,117>>, <<220,214,13,207>>, <<171,209,61,89>>,
       <<38,217,48,172>>, <<81,222,0,58>>, <<200,215,81,128>>, <<191,208,97,22>>, <<33,180,244,181>>, <<86,179,196,35>>,
       <<207,186,149,153>>, <<184,189,165,15>>, <<40,2,184,158>>, <<95,5,136,8>>, <<198,12,217,178>>, <<177,11,233,36>>,
       <<47,111,124,135>>, <<88,104,76,17>>, <<193,97,29,171>>, <<182,102,45,61>>, <<118,220,65,144>>, <<1,219,113,6>>,
       <<152,210,32,188>>, <<239,213,16,42>>, <<113,177,133,137>>, <<6,182,181,31>>, <<159,191,228,165>>, <<232,184,212,51>>,
       <<120,7,201,162>>, <<15,0,249,52>>, <<150,9,168,142>>, <<225,14,152,24>>, <<127,106,13,187>>, <<8,109,61,45>>,
       <<145,100,108,151>>, <<230,99,92,1>>, <<107,107,81,244>>, <<28,108,97,98>>, <<133,101,48,216>>, <<242,98,0,78>>,
       <<108,6,149,237>>, <<27,1,165,123>>, <<130,8,244,193>>, <<245,15,196,87>>, <<101,176,217,198>>, <<18,183,233,80>>,
       <<139,190,184,234>>, <<252,185,136,124>>, <<98,221,29,223>>, <<21,218,45,73>>, <<140,211,124,243>>, <<251,212,76,101>>,
       <<77,178,97,88>>, <<58,181,81,206>>, <<163,188,0,116>>, <<212,187,48,226>>, <<74,223,165,65>>, <<61,216,149,215>>,
       <<164,209,196,109>>, <<211,214,244,251>>, <<67,105,233,106>>, <<52,110,217,252>>, <<173,103,136,70>>, <<218,96,184,208>>,
       <<68,4,45,115>>, <<51,3,29,229>>, <<170,10,76,95>>, <<221,13,124,201>>, <<80,5,113,60>>, <<39,2,65,170>>,
       <<190,11,16,16>>, <<201,12,32,134>>, <<87,104,181,37>>, <<32,111,133,179>>, <<185,102,212,9>>, <<206,97,228,159>>,
       <<94,222,249,14>>, <<41,217,201,152>>, <<176,208,152,34>>, <<199,215,168,180>>, <<89,179,61,23>>, <<46,180,13,129>>,
       <<183,189,92,59>>, <<192,186,108,173>>, <<237,184,131,32>>, <<154,191,179,182>>, <<3,182,226,12>>, <<116,177,210,154>>,
       <<234,213,71,57>>, <<157,210,119,175>>, <<4,219,38,21>>, <<115,220,22,131>>, <<227,99,11,18>>, <<148,100,59,132>>,
       <<13,109,106,62>>, <<122,106,90,168>>, <<228,14,207,11>>, <<147,9,255,157>>, <<10,0,174,39>>, <<125,7,158,177>>,
       <<240,15,147,68>>, <<135,8,163,210>>, <<30,1,242,104>>, <<105,6,194,254>>, <<247,98,87,93>>, <<128,101,103,203>>,
       <<25,108,54,113>>, <<110,107,6,231>>, <<254,212,27,118>>, <<137,211,43,224>>, <<16,218,122,90>>, <<103,221,74,204>>,
       <<249,185,223,111>>, <<142,190,239,249>>, <<23,183,190,67>>, <<96,176,142,213>>, <<214,214,163,232>>, <<161,209,147,126>>,
       <<56,216,194,196>>, <<79,223,242,82>>, <<209,187,103,241>>, <<166,188,87,103>>, <<63,181,6,221>>, <<72,178,54,75>>,
       <<216,13,43,218>>, <<175,10,27,76>>, <<54,3,74,246>>, <<65,4,122,96>>, <<223,96,239,195>>, <<168,103,223,85>>,
       <<49,110,142,239>>, <<70,105,190,121>>, <<203,97,179,140>>, <<188,102,131,26>>, <<37,111,210,160>>, <<82,104,226,54>>,
       <<204,12,119,149>>, <<187,11,71,3>>, <<34,2,22,185>>, <<85,5,38,47>>, <<197,186,59,190>>, <<178,189,11,40>>,
       <<43,180,90,146>>, <<92,179,106,4>>, <<194,215,255,167>>, <<181,208,207,49>>, <<44,217,158,139>>, <<91,222,174,29>>,
       <<155,100,194,176>>, <<236,99,242,38>>, <<117,106,163,156>>, <<2,109,147,10>>, <<156,9,6,169>>, <<235,14,54,63>>,
       <<114,7,103,133>>, <<5,0,87,19>>, <<149,191,74,130>>, <<226,184,122,20>>, <<123,177,43,174>>, <<12,182,27,56>>,
       <<146,210,142,155>>, <<229,213,190,13>>, <<124,220,239,183>>, <<11,219,223,33>>, <<134,211,210,212>>, <<241,212,226,66>>,
       <<104,221,179,248>>, <<31,218,131,110>>, <<129,190,22,205>>, <<246,185,38,91>>, <<111,176,119,225>>, <<24,183,71,119>>,
       <<136,8,90,230>>, <<255,15,106,112>>, <<102,6,59,202>>, <<17,1,11,92>>, <<143,101,158,255>>, <<248,98,174,105>>,
       <<97,107,255,211>>, <<22,108,207,69>>, <<160,10,226,120>>, <<215,13,210,238>>, <<78,4,131,84>>, <<57,3,179,194>>,
       <<167,103,38,97>>, <<208,96,22,247>>, <<73,105,71,77>>, <<62,110,119,219>>, <<174,209,106,74>>, <<217,214,90,220>>,
       <<64,223,11,102>>, <<55,216,59,240>>, <<169,188,174,83>>, <<222,187,158,197>>, <<71,178,207,127>>, <<48,181,255,233>>,
       <<189,189,242,28>>, <<202,186,194,138>>, <<83,179,147,48>>, <<36,180,163,166>>, <<186,208,54,5>>, <<205,215,6,147>>,
       <<84,222,87,41>>, <<35,217,103,191>>, <<179,102,122,46>>, <<196,97,74,184>>, <<93,104,27,2>>, <<42,111,43,148>>,
       <<180,11,190,55>>, <<195,12,142,161>>, <<90,5,223,27>>, <<45,2,239,141>> >>

\* zlib.crc32(data) & 0xffffffff, as four big-endian bytes.
crc32(data) ==
    LET step(c, i) == Xor32(CrcTable[XorByte(c[4], data[i]) + 1], Shr8(c))
    IN  Xor32(FoldRange(step, << 255, 255, 255, 255 >>, 1, Len(data)),
              << 255, 255, 255, 255 >>)

----------------------------------------------------------------------------
(* base64.urlsafe_b64encode / urlsafe_b64decode on byte strings; the text  *)
(* is a sequence of ASCII codes.                                           *)

B64Char(v) ==
    IF v < 26 THEN 65 + v
    ELSE IF v < 52 THEN 97 + (v - 26)
    ELSE IF v < 62 THEN 48 + (v - 52)
    ELSE IF v = 62 THEN 45 ELSE 95

\* The six-bit value of a character of the alphabet, -1 for any other byte.
B64Value(ch) ==
    IF ch >= 65 /\ ch <= 90 THEN ch - 65
    ELSE IF ch >= 97 /\ ch <= 122 THEN ch - 97 + 26
    ELSE IF ch >= 48 /\ ch <= 57 THEN ch - 48 + 52
    ELSE IF ch = 45 THEN 62
    ELSE IF ch = 95 THEN 63 ELSE -1

B64Pad == 61

urlsafe_b64encode(data) ==
    LET n == Len(data)
        byte(i) == IF i <= n THEN data[i] ELSE 0
        ch(k) ==
            LET g == (k - 1) \div 4
                j == (k - 1) % 4
                b1 == byte(3 * g + 1)
                b2 == byte(3 * g + 2)
                b3 == byte(3 * g + 3)
                have == n - 3 * g
            IN  IF j = 0 THEN B64Char(b1 \div 4)
                ELSE IF j = 1 THEN B64Char((b1 % 4) * 16 + b2 \div 16)
                ELSE IF j = 2 THEN
                    IF have >= 2 THEN B64Char((b2 % 16) * 4 + b3 \div 64) ELSE B64Pad
                ELSE IF have >= 3 THEN B64Char(b3 % 64) ELSE B64Pad
    IN  Tabulate(ch, 4 * ((n + 2) \div 3))

\* The number of '=' that end the text (0, 1 or 2).
B64PadCount(text) ==
    LET n == Len(text)
    IN  IF n >= 1 /\ text[n] = B64Pad
        THEN (IF n >= 2 /\ text[n - 1] = B64Pad THEN 2 ELSE 1)
        ELSE 0

\* TRUE when the text is what urlsafe_b64encode can produce a decoding for:
\* whole groups of four characters of the alphabet, padded only at the end.
B64WellFormed(text) ==
    LET n == Len(text)
        p == B64PadCount(text)
    IN  /\ n % 4 = 0
        /\ \A k \in 1..(n - p) : B64Value(text[k]) >= 0

\* urlsafe_b64decode of a well-formed text.
urlsafe_b64decode(text) ==
    LET n == Len(text)
        p == B64PadCount(text)
        v(k) == IF k <= n - p THEN B64Value(text[k]) ELSE 0
        byte(i) ==
            LET g == (i - 1) \div 3
                j == (i - 1) % 3
            IN  IF j = 0 THEN v(4 * g + 1) * 4 + v(4 * g + 2) \div 16
                ELSE IF j = 1 THEN (v(4 * g + 2) % 16) * 16 + v(4 * g + 3) \div 4
                ELSE (v(4 * g + 3) % 4) * 64 + v(4 * g + 4)
    IN  Tabulate(byte, 3 * (n \div 4) - p)

----------------------------------------------------------------------------
(* bytes.decode('utf-8') succeeds exactly on well-formed UTF-8.            *)

IsCont(b) == b >= 128 /\ b <= 191

\* The length of the well-formed UTF-8 sequence that starts at data[i], 0 if none.
Utf8SeqLen(data, i) ==
    LET n == Len(data)
        b == data[i]
        at(k) == IF i + k <= n THEN data[i + k] ELSE -1
    IN  IF b < 128 THEN 1
        ELSE IF b >= 194 /\ b <= 223 THEN (IF IsCont(at(1)) THEN 2 ELSE 0)
        ELSE IF b >= 224 /\ b <= 239 THEN
            (IF /\ IsCont(at(1)) /\ IsCont(at(2))
                /\ (b = 224 => at(1) >= 160)
                /\ (b = 237 => at(1) <= 159)
             THEN 3 ELSE 0)
        ELSE IF b >= 240 /\ b <= 244 THEN
            (IF /\ IsCont(at(1)) /\ IsCont(at(2)) /\ IsCont(at(3))
                /\ (b = 240 => at(1) >= 144)
                /\ (b = 244 => at(1) <= 143)
             THEN 4 ELSE 0)
        ELSE 0

\* Every byte lies in a well-formed sequence that starts right after the
\* previous one: position i starts a sequence when i = 1 or a sequence ends at i - 1.
IsUtf8(data) ==
    LET n == Len(data)
        step(pos, i) ==
            IF pos # i THEN pos
            ELSE IF Utf8SeqLen(data, i) = 0 THEN 0 ELSE i + Utf8SeqLen(data, i)
    IN  FoldRange(step, 1, 1, n) = n + 1

----------------------------------------------------------------------------
(* Passwords.  PasswordBytes is password.encode(); Seed is                  *)
(* int(hashlib.sha256(password.encode()).hexdigest()[:8], 16) as four       *)
(* big-endian bytes, the values SHA-256 gives for these strings ("ever" and *)
(* "hgwj" are two passwords whose digests start with the same 32 bits).     *)

NoPassword == ""

Passwords == { NoPassword, "ever", "hgwj", "key" }

PasswordBytes(password) ==
    CASE password = "ever" -> << 101, 118, 101, 114 >>
      [] password = "hgwj" -> << 104, 103, 119, 106 >>
      [] password = "key"  -> << 107, 101, 121 >>
      [] OTHER             -> << >>

Seed(password) ==
    CASE password = "ever" -> << 99, 33, 38, 85 >>
      [] password = "hgwj" -> << 99, 33, 38, 85 >>
      [] password = "key"  -> << 44, 112, 225, 43 >>
      [] OTHER             -> << 0, 0, 0, 0 >>

----------------------------------------------------------------------------
(* random.Random(seed).shuffle(x).  The generator of the library is        *)
(* replaced by a small linear congruential one; what is kept is that the   *)
(* generator is created from the seed alone at every call, and the loop of *)
(* shuffle: for i in reversed(range(1, len(x))): j = randbelow(i + 1);     *)
(* x[i], x[j] = x[j], x[i].                                                *)

RngModulus == 65537

RngInit(seed) == ((seed[1] * 256 + seed[2]) * 3 + seed[3] * 256 + seed[4]) % RngModulus

RngNext(s) == (75 * s + 74) % RngModulus

\* A shuffle that draws every place anew, so that an element can come twice.
shuffle_with_repeats(x, seed) ==
    Tabulate(LAMBDA k : x[((RngInit(seed) + k * k) % Len(x)) + 1], Len(x))

shuffle(x, seed) ==
    LET n == Len(x)
        step(st, t) ==
            LET i  == n - t
                s2 == RngNext(st.s)
                j  == s2 % (i + 1)
            IN  [x |-> [st.x EXCEPT ![i + 1] = st.x[j + 1], ![j + 1] = st.x[i + 1]],
                 s |-> s2]
    IN  FoldRange(step, [x |-> x, s |-> RngInit(seed)], 1, n - 1).x

----------------------------------------------------------------------------
(* The payload cipher: PBKDF2HMAC(SHA256, 100000 iterations) and           *)
(* cryptography.fernet.Fernet.  The token keeps the layout and the length  *)
(* of a Fernet token, base64url(0x80 | timestamp(8) | iv(16) | ciphertext  *)
(* | hmac(32)) with the plaintext PKCS7-padded to whole blocks of 16; the  *)
(* primitives are stand-ins: the derived key is a CRC of password and      *)
(* salt, the block cipher a keyed xor, the HMAC a keyed CRC.               *)

SALT_SIZE == 16

FernetVersion == 128

BlockSize == 16

MacSize == 32

\* kdf.derive(password.encode()) for the salt.
DeriveKey(password, salt) == crc32(PasswordBytes(password) \o salt)

Pkcs7Pad(data) ==
    LET pad == BlockSize - (Len(data) % BlockSize)
    IN  data \o Tabulate(LAMBDA i : pad, pad)

KeyStream(key, iv, i) == XorByte(key[((i - 1) % 4) + 1], iv[((i - 1) % BlockSize) + 1])

CipherApply(key, iv, data) ==
    Tabulate(LAMBDA i : XorByte(data[i], KeyStream(key, iv, i)), Len(data))

Hmac(key, data) ==
    LET h == TheOne({ crc32(key \o data) })
    IN  Tabulate(LAMBDA i : h[((i - 1) % 4) + 1], MacSize)

\* Fernet(key).encrypt(payload) with the timestamp and the iv it draws.
fernet_encrypt(key, payload, rnd) ==
    LET body == << FernetVersion >> \o rnd.ts \o rnd.iv
                  \o CipherApply(key, rnd.iv, Pkcs7Pad(payload))
    IN  urlsafe_b64encode(body \o Hmac(key, body))

\* Fernet(key).decrypt(token): [ok |-> FALSE] stands for InvalidToken.
fernet_decrypt(key, token) ==
    LET invalid == [ok |-> FALSE, data |-> << >>]
    IN  IF ~B64WellFormed(token) THEN invalid
        ELSE LET data == TheOne({ urlsafe_b64decode(token) })
                 n    == Len(data)
             IN  IF n < 1 + 8 + BlockSize + MacSize \/ data[1] # FernetVersion THEN invalid
                 ELSE LET body == SubSeq(data, 1, n - MacSize)
                          mac  == SubSeq(data, n - MacSize + 1, n)
                          ct   == SubSeq(data, 1 + 8 + BlockSize + 1, n - MacSize)
                          iv   == SubSeq(data, 1 + 8 + 1, 1 + 8 + BlockSize)
                      IN  IF mac # Hmac(key, body) THEN invalid
                          ELSE IF Len(ct) = 0 \/ Len(ct) % BlockSize # 0 THEN invalid
                          ELSE LET padded == TheOne({ CipherApply(key, iv, ct) })
                                   pad    == padded[Len(padded)]
                               IN  IF \/ pad < 1 \/ pad > BlockSize
                                      \/ \E k \in (Len(padded) - pad + 1)..Len(padded) :
                                            padded[k] # pad
                                   THEN invalid
                                   ELSE [ok |-> TRUE,
                                         data |-> SubSeq(padded, 1, Len(padded) - pad)]

\* What one call draws from os.urandom and from the clock: the n-th draw.
Randomness(n) ==
    [salt |-> Tabulate(LAMBDA i : (n * 17 + i * 29) % 256, SALT_SIZE),
     iv   |-> Tabulate(LAMBDA i : (n * 31 + i * 7) % 256, BlockSize),
     ts   |-> << 0, 0, 0, 0, 107, 9, 40, n >>]

encrypt_payload(payload, password, rnd) ==
    rnd.salt \o fernet_encrypt(DeriveKey(password, rnd.salt), payload, rnd)

decrypt_payload(encrypted_payload, password) ==
    LET n    == Len(encrypted_payload)
        salt == SubSeq(encrypted_payload, 1, Min(SALT_SIZE, n))
        encrypted_data == SubSeq(encrypted_payload, SALT_SIZE + 1, n)
    IN  fernet_decrypt(DeriveKey(password, salt), encrypted_data)

----------------------------------------------------------------------------
(* Images.  A file holds an image [mode, height, width, data]; data is the *)
(* row-major sequence of its 8-bit samples, one per pixel for mode "L",    *)
(* three for "RGB", four for "RGBA".  PNG encoding and decoding (PIL) and  *)
(* the base64 wrapping of the result are lossless and are not unfolded.    *)

Bands(mode) == IF mode = "RGBA" THEN 4 ELSE IF mode = "RGB" THEN 3 ELSE 1

\* carrier_img.convert('RGB') of a greyscale image: the grey on all three bands.
ConvertToRGB(img) ==
    [mode |-> "RGB", height |-> img.height, width |-> img.width,
     data |-> Tabulate(LAMBDA k : img.data[((k - 1) \div 3) + 1],
                       3 * img.height * img.width)]

\* Image.open(path), converted unless the mode is RGB or RGBA.
OpenImage(img) == IF img.mode \in { "RGB", "RGBA" } THEN img ELSE ConvertToRGB(img)

\* np.array(img).shape
Shape(img) == << img.height, img.width, Bands(img.mode) >>

\* The place of img_array[row, col, channel] in the sample sequence.
SampleIndex(shape, pos) == ((pos[1] * shape[2] + pos[2]) * shape[3]) + pos[3] + 1

----------------------------------------------------------------------------
(* SteganographyEngine                                                     *)

HEADER_SIZE == 16

MAGIC_BYTES == << 83, 84, 69, 71 >>

DefaultChannels == << "red", "green", "blue" >>

ChannelMap(ch) == IF ch = "red" THEN 0 ELSE IF ch = "green" THEN 1 ELSE 2

IsKnownChannel(ch) == ch \in { "red", "green", "blue" }

get_channel_indices(channels) ==
    IF channels = << >> THEN << 0, 1, 2 >>
    ELSE LET known == SelectSeq(channels, IsKnownChannel)
         IN  Tabulate(LAMBDA k : ChannelMap(known[k]), Len(known))

\* A capacity that reserves nothing for the header.
capacity_without_header(img, bits, num_channels) ==
    (img.width * img.height * bits * num_channels) \div 8

\* A capacity that rounds the bits left after the header up to whole bytes.
capacity_rounded_up(img, bits, num_channels) ==
    ((img.width * img.height * bits * num_channels - (HEADER_SIZE * 8)) + 7) \div 8

calculate_capacity(img, bits, num_channels) ==
    LET pixels         == img.width * img.height
        bits_per_pixel == bits * num_channels
        total_bits     == pixels * bits_per_pixel
        available_bits == total_bits - (HEADER_SIZE * 8)
    IN  available_bits \div 8

\* A frame whose length field is little-endian.
frame_little_endian(payload_data, plaintext_crc32) ==
    LET n   == Len(payload_data)
        crc == IF plaintext_crc32 # << >> THEN plaintext_crc32 ELSE crc32(payload_data)
    IN  MAGIC_BYTES \o << n % 256, (n \div 256) % 256, 0, 0 >> \o crc \o PackU32(0)
            \o payload_data

\* plaintext_crc32 is << >> where the source passes None.
create_payload_with_header(payload_data, plaintext_crc32) ==
    LET crc    == IF plaintext_crc32 # << >> THEN plaintext_crc32 ELSE crc32(payload_data)
        header == MAGIC_BYTES \o PackU32(Len(payload_data)) \o crc \o PackU32(0)
    IN  header \o payload_data

\* A header check that accepts any sixteen bytes.
AnyHeader(header_data) == TRUE

\* A header check that compares the magic and not the length.
MagicOnly(header_data) ==
    Len(header_data) >= 4 /\ SubSeq(header_data, 1, 4) = MAGIC_BYTES

validate_header(header_data) ==
    IF Len(header_data) # HEADER_SIZE THEN FALSE
    ELSE SubSeq(header_data, 1, 4) = MAGIC_BYTES

\* The list all_positions after the three nested loops, and after the shuffle
\* when there is a password.
AllPositions(img_shape, password, selected_channels) ==
    LET height == img_shape[1]
        width  == img_shape[2]
        nsel   == Len(selected_channels)
        raster == Tabulate(LAMBDA k : << (k - 1) \div (width * nsel),
                                         ((k - 1) \div nsel) % width,
                                         selected_channels[((k - 1) % nsel) + 1] >>,
                           height * width * nsel)
    IN  IF password # NoPassword THEN shuffle(raster, Seed(password)) ELSE raster

\* A slice that always starts at the head of the list.
slice_from_start(list, start_index, end_index) ==
    SubSeq(list, 1, Min(end_index - start_index, Len(list)))

\* all_positions[start_index:end_index]
Slice(list, start_index, end_index) ==
    SubSeq(list, start_index + 1, Min(end_index, Len(list)))

generate_embedding_positions(img_shape, positions_needed, password, selected_channels, start_index) ==
    Slice(AllPositions(img_shape, password, selected_channels),
          start_index, start_index + positions_needed)

\* The bit of the data stream at bit_ptr, most significant bit of a byte first.
StreamBit(data, bit_ptr) == BitAt(data[(bit_ptr \div 8) + 1], 7 - (bit_ptr % 8))

\* The value the loop of _embed_data assembles for the slot that starts at
\* bit_ptr: up to `bits` bits, padded with zeros on the low end.
SlotValue(data, bit_ptr, bits) ==
    LET total_bits == Len(data) * 8
        bit(j) == IF bit_ptr + j < total_bits
                  THEN StreamBit(data, bit_ptr + j) * Pow2(bits - 1 - j) ELSE 0
    IN  SumRange(bit, 0, bits - 1)

\* An embedding that stores the bit group as the whole sample.
embed_data_overwrite(samples, img_shape, data, positions, bits) ==
    LET write(arr, p) ==
            IF (p - 1) * bits >= Len(data) * 8 THEN arr
            ELSE [arr EXCEPT ![SampleIndex(img_shape, positions[p])] =
                                 SlotValue(data, (p - 1) * bits, bits)]
    IN  FoldRange(write, samples, 1, Len(positions))

\* img_array after _embed_data: the positions are visited in order, each one
\* taking the next `bits` bits, until the data is used up.
embed_data(samples, img_shape, data, positions, bits) ==
    LET bit_mask   == Pow2(bits) - 1
        total_bits == Len(data) * 8
        write(arr, p) ==
            IF (p - 1) * bits >= total_bits THEN arr
            ELSE LET at  == SampleIndex(img_shape, positions[p])
                     val == SlotValue(data, (p - 1) * bits, bits)
                 IN  [arr EXCEPT ![at] = (@ - (@ % (bit_mask + 1))) + (val % (bit_mask + 1))]
    IN  FoldRange(write, samples, 1, Len(positions))

\* The number of bits the first loop of _extract_data collects.
BitsCollected(positions, bits, length_bytes) == Min(Len(positions) * bits, length_bytes * 8)

\* bits_collected[t] of _extract_data, t counted from 0.
CollectedBit(samples, img_shape, positions, bits, t) ==
    LET pixel_value == samples[SampleIndex(img_shape, positions[(t \div bits) + 1])]
        val         == pixel_value % Pow2(bits)
    IN  BitAt(val, bits - 1 - (t % bits))

\* _extract_data where enough bits were collected (otherwise the second loop
\* raises IndexError).
extract_data(samples, img_shape, positions, bits, length_bytes) ==
    LET byte(i) ==
            SumRange(LAMBDA j :
                CollectedBit(samples, img_shape, positions, bits, (8 * (i - 1)) + j)
                    * Pow2(7 - j), 0, 7)
    IN  Tabulate(byte, length_bytes)

\* Metrics that sum the wrapped differences without squaring them.
metrics_unsquared(original, stego) ==
    LET total == SumRange(LAMBDA k : (original[k] - stego[k]) % 256, 1, Len(original))
    IN  [sq_sum |-> total, samples |-> Len(original), psnr_inf |-> total = 0]

\* The part of _calculate_metrics that is integer arithmetic: the sum of the
\* squared differences as numpy computes them on uint8 arrays (the difference
\* and the square both wrap modulo 256), and whether PSNR is infinite.
\* The floating point values of psnr and ssim are not modelled.
calculate_metrics(original, stego) ==
    LET sq(k)  == (((original[k] - stego[k]) % 256) * ((original[k] - stego[k]) % 256)) % 256
        total  == SumRange(sq, 1, Len(original))
    IN  [sq_sum |-> total, samples |-> Len(original), psnr_inf |-> total = 0]

----------------------------------------------------------------------------
(* The calls.  The state holds the files of the working directory, the     *)
(* image the last embed returned (as the caller decoded and stored it),    *)
(* and a record of the last embed and the last extract call.               *)

VARIABLES
    fs,       \* path -> image, or NoFile
    stego,    \* the stego image the caller holds, or NoFile
    emb,      \* the last call of embed: arguments, locals, outcome
    tamper,   \* the frame bit flipped in the stego image since, or -1
    ext,      \* the last call of extract: arguments, outcome
    calls,    \* the embeddings in flight, one record each (concurrent runs)
    unit,     \* the helper methods called directly: arguments and results
    an        \* the last analysis: statistics, results, confidence, explanation

vars == << fs, stego, emb, tamper, ext, calls, unit, an >>

NoFile == [mode |-> "absent", height |-> 0, width |-> 0, data |-> << >>]

TempName == "stego_temp.png"

\* A path is the pair of a directory and a file name.
\* os.path.join(os.path.dirname(carrier_path), "stego_temp.png")
StegoPath(carrier_path) == << carrier_path[1], TempName >>

WorkDir == "work"

\* Bounds of the model.
SmallSide == 8
BigHeight == 12
BigWidth == 15
MaxBits == 3
MaxDraw == 2
MaxTamper == 2

Pattern(k) == (k * 37 + 11) % 256

MakeImage(mode, height, width) ==
    [mode |-> mode, height |-> height, width |-> width,
     data |-> Tabulate(Pattern, height * width * Bands(mode))]

\* Samples without a pattern in their low bits.
Noise(k) == (15 * k * k + 11 * k + 3) % 239

NoiseImage ==
    [mode |-> "RGB", height |-> BigHeight, width |-> BigWidth,
     data |-> Tabulate(Noise, BigHeight * BigWidth * 3)]

\* The carriers a run starts from: file name and image.
Carriers ==
    { [name |-> << WorkDir, "carrier.png" >>, img |-> MakeImage("RGB", SmallSide, SmallSide)],
      [name |-> << WorkDir, TempName >>,      img |-> MakeImage("RGB", SmallSide, SmallSide)],
      [name |-> << WorkDir, "carrier.png" >>, img |-> MakeImage("L", SmallSide, SmallSide)],
      [name |-> << WorkDir, "carrier.png" >>, img |-> MakeImage("RGBA", BigHeight, BigWidth)],
      [name |-> << WorkDir, "carrier.png" >>, img |-> NoiseImage] }

FileNames == { << WorkDir, "carrier.png" >>, << WorkDir, TempName >> }

PayloadOfLen(n) == Tabulate(LAMBDA i : (n * 53 + i * 41) % 256, n)

ValidChannelLists == { DefaultChannels, << "blue", "red" >>, << "green" >> }

OtherChannelLists == { << >>, << "red", "red" >>, << "red", "alpha" >> }

\* EmbeddingConfig of the specification: bitDepth in {1,2}, a non-empty set
\* of channels (a list of known names without repetition).
ValidConfig(bits, channels) == bits \in { 1, 2 } /\ channels \in ValidChannelLists

Config(bits, channels, password, encrypt) ==
    [bits |-> bits, channels |-> channels, password |-> password, encrypt |-> encrypt]

EmbedPasswords == { NoPassword, "ever" }

IsLarge(img) == img.height * img.width > SmallSide * SmallSide

\* The configurations embed is called with.  The small RGB carrier takes
\* every valid one, and the default one with the bit depth or the channel
\* list replaced.  The large carrier, which is there for the frames whose
\* body is a ciphertext, takes the widest valid one with and without
\* encryption, the plainest one, and the plainest one for the lists with a
\* repeated and with an unknown name.  The carrier of another mode and the one stored under the
\* name of the temporary file take the valid ones that do not encrypt.
EmbedConfigs(carrier_path, img) ==
    IF IsLarge(img)
    THEN { Config(2, DefaultChannels, "ever", en) : en \in BOOLEAN }
         \cup { Config(1, DefaultChannels, NoPassword, FALSE) }
         \cup { Config(1, ch, NoPassword, FALSE) : ch \in OtherChannelLists \ { << >> } }
    ELSE IF img.mode # "RGB" \/ carrier_path = StegoPath(carrier_path)
    THEN { Config(b, ch, pw, FALSE) :
             b \in { 1, 2 }, ch \in ValidChannelLists, pw \in EmbedPasswords }
    ELSE { Config(b, ch, pw, en) :
             b \in { 1, 2 }, ch \in ValidChannelLists, pw \in EmbedPasswords, en \in BOOLEAN }
         \cup { Config(b, DefaultChannels, NoPassword, FALSE) : b \in 0..MaxBits }
         \cup { Config(1, ch, NoPassword, FALSE) : ch \in OtherChannelLists }

\* The payload lengths tried for a capacity: empty, one byte, the capacity
\* and one more; on the large carrier the first length whose ciphertext
\* takes one more block instead of the capacity.
PayloadLengths(img, capacity) ==
    IF IsLarge(img) THEN { 0, 1, BlockSize }
    ELSE { n \in { 0, 1, capacity, capacity + 1 } : n >= 0 }

\* The draws of os.urandom and of the clock an encrypting call can make.
Draws(cfg) == IF cfg.encrypt /\ cfg.password # NoPassword THEN 1..MaxDraw ELSE { 1 }

EmbNone ==
    [status |-> "none", carrier_path |-> << "", "" >>, before |-> NoFile, payload |-> << >>,
     cfg |-> Config(0, << >>, NoPassword, FALSE), capacity |-> 0,
     frame |-> << >>, frame_len |-> 0, selected_channels |-> << >>,
     positions_needed |-> 0, positions |-> << >>, positions_len |-> 0,
     metrics |-> [capacity_bytes |-> 0, payload_size |-> 0,
                  embedding_efficiency |-> << 0, 1 >>, sq_sum |-> 0,
                  psnr_inf |-> FALSE, bits_used |-> 0, channels_used |-> << >>]]

ExtNone ==
    [status |-> "none", cfg |-> Config(0, << >>, NoPassword, FALSE),
     header |-> << >>, payload |-> << >>, payload_type |-> "",
     header_positions |-> << >>, payload_positions |-> << >>, slots |-> 0]

\* No helper method was called yet, on an image of the given size.
UnitStart(height, width) ==
    [op |-> "none", height |-> height, width |-> width, capacity |-> << >>,
     header_data |-> << >>, accepted |-> FALSE,
     schedule |-> [img_shape |-> << height, width, 3 >>, channels |-> << >>,
                   password |-> NoPassword, positions |-> << >>]]

UnitNone == UnitStart(0, 0)

AnNone == [status |-> "none"]


----------------------------------------------------------------------------
(* SteganographyEngine.embed, up to the stego image and the metrics held   *)
(* in memory (lines 58-102); the temporary file and the return follow in   *)
(* the actions.                                                            *)

EmbedLocals(status, capacity, frame, selected_channels, needed, positions, stego_img, m) ==
    [status |-> status, capacity |-> capacity, frame |-> frame, frame_len |-> Len(frame),
     selected_channels |-> selected_channels, positions_needed |-> needed,
     positions |-> positions, positions_len |-> Len(positions), stego_img |-> stego_img,
     sq_sum |-> m.sq_sum, psnr_inf |-> m.psnr_inf]

NoMetrics == [sq_sum |-> 0, samples |-> 0, psnr_inf |-> FALSE]

embed_in_memory(file, payload_data, cfg, rnd) ==
    Bind(OpenImage(file), LAMBDA carrier_img :
    Bind(calculate_capacity(carrier_img, cfg.bits, Len(cfg.channels)), LAMBDA capacity :
    IF Len(payload_data) > capacity
    THEN EmbedLocals("CapacityExceeded", capacity, << >>, << >>, 0, << >>, NoFile, NoMetrics)
    ELSE
    Bind(IF cfg.encrypt /\ cfg.password # NoPassword
         THEN create_payload_with_header(
                  encrypt_payload(payload_data, cfg.password, rnd), crc32(payload_data))
         ELSE create_payload_with_header(payload_data, << >>), LAMBDA payload_with_header :
    LET img_shape         == Shape(carrier_img)
        selected_channels == get_channel_indices(cfg.channels)
        total_bits        == Len(payload_with_header) * 8
        positions_needed  == ((total_bits + cfg.bits) - 1) \div cfg.bits
    IN
    Bind(generate_embedding_positions(img_shape, positions_needed, cfg.password,
                                      selected_channels, 0), LAMBDA positions :
    Bind(embed_data(carrier_img.data, img_shape, payload_with_header, positions, cfg.bits),
         LAMBDA img_array :
    EmbedLocals("ok", capacity, payload_with_header, selected_channels, positions_needed,
                positions,
                [carrier_img EXCEPT !.data = img_array],
                calculate_metrics(carrier_img.data, img_array)))))))

\* A return whose efficiency is that of the frame.
ReturnFrameEfficiency(loc, payload_data, cfg) ==
    [status |-> "ok",
     metrics |-> [capacity_bytes |-> loc.capacity,
                  payload_size |-> Len(payload_data),
                  embedding_efficiency |-> << loc.frame_len, loc.capacity >>,
                  sq_sum |-> loc.sq_sum, psnr_inf |-> loc.psnr_inf,
                  bits_used |-> cfg.bits, channels_used |-> cfg.channels]]

\* The dictionary embed returns (lines 115-127); the division raises
\* ZeroDivisionError when the capacity is 0.
EmbedReturn(loc, payload_data, cfg) ==
    IF loc.capacity = 0
    THEN [status |-> "ZeroDivisionError", metrics |-> EmbNone.metrics]
    ELSE [status |-> "ok",
          metrics |-> [capacity_bytes |-> loc.capacity,
                       payload_size |-> Len(payload_data),
                       embedding_efficiency |-> << Len(payload_data), loc.capacity >>,
                       sq_sum |-> loc.sq_sum, psnr_inf |-> loc.psnr_inf,
                       bits_used |-> cfg.bits, channels_used |-> cfg.channels]]

----------------------------------------------------------------------------
(* SteganographyEngine.extract (lines 148-207).                            *)

ExtractResult(status, cfg, header_data, payload) ==
    [status |-> status, cfg |-> cfg, header |-> header_data, payload |-> payload,
     payload_type |-> IF status # "ok" THEN ""
                      ELSE IF IsUtf8(payload) THEN "text" ELSE "binary",
     header_positions |-> << >>, payload_positions |-> << >>, slots |-> 0]

\* The result with the positions extract generated on its way: the slots of
\* the schedule (lines 162-164 and 176-178).
WithPositions(result, all_positions, header_positions, payload_positions) ==
    [result EXCEPT !.header_positions = header_positions,
                   !.payload_positions = payload_positions,
                   !.slots = Len(all_positions)]

\* An extract that does not compare the checksum.
CrcIgnored(payload_data, crc) == FALSE

\* zlib.crc32(payload_data) != crc32
CrcMismatch(payload_data, crc) == crc32(payload_data) # crc

\* extract after the header was read and validated (lines 173-207).
ExtractBody(samples, img_shape, all_positions, header_data, header_positions_needed, cfg) ==
    LET bits == cfg.bits
        fail(kind) == ExtractResult(kind, cfg, header_data, << >>)
        length_field == SubSeq(header_data, 5, 8)
        crc          == SubSeq(header_data, 9, 12)
        \* The slots left after the header hold this many whole bytes; a longer
        \* payload_length leaves bits_collected short.
        room == ((Len(all_positions) - header_positions_needed) * bits) \div 8
        header_positions == Slice(all_positions, 0, header_positions_needed)
    IN  IF length_field[1] >= 128 \/ UnpackU32(length_field) > room
        THEN WithPositions(fail("IndexError"), all_positions, header_positions,
                           Slice(all_positions, header_positions_needed, Len(all_positions)))
        ELSE
        LET payload_length == UnpackU32(length_field)
            payload_bits   == payload_length * 8
            payload_positions_needed == ((payload_bits + bits) - 1) \div bits
            payload_positions ==
                Slice(all_positions, header_positions_needed,
                      header_positions_needed + payload_positions_needed)
            raw == TheOne({ extract_data(samples, img_shape, pp, bits, payload_length) :
                              pp \in { payload_positions } })
            decrypted ==
                IF cfg.encrypt /\ cfg.password # NoPassword
                THEN TheOne({ decrypt_payload(r, cfg.password) : r \in { raw } })
                ELSE [ok |-> TRUE, data |-> raw]
        IN  WithPositions(
                IF ~decrypted.ok THEN fail("DecryptionFailure")
                ELSE IF CrcMismatch(decrypted.data, crc) THEN fail("IntegrityError")
                ELSE ExtractResult("ok", cfg, header_data, decrypted.data),
                all_positions, header_positions, payload_positions)

\* extract once the schedule is at hand (lines 160-171).
ExtractHeader(samples, img_shape, all_positions, cfg) ==
    LET bits == cfg.bits
        header_bits == HEADER_SIZE * 8
        header_positions_needed == ((header_bits + bits) - 1) \div bits
        header_positions == Slice(all_positions, 0, header_positions_needed)
    IN  IF BitsCollected(header_positions, bits, HEADER_SIZE) < header_bits
        THEN WithPositions(ExtractResult("IndexError", cfg, << >>, << >>),
                           all_positions, header_positions, << >>)
        ELSE TheOne({ IF ~validate_header(header_data)
                      THEN WithPositions(ExtractResult("InvalidFrame", cfg, header_data, << >>),
                                         all_positions, header_positions, << >>)
                      ELSE ExtractBody(samples, img_shape, all_positions, header_data,
                                       header_positions_needed, cfg) :
                      header_data \in { extract_data(samples, img_shape, header_positions,
                                                     bits, HEADER_SIZE) } })

extract(file, cfg) ==
    LET selected_channels == get_channel_indices(cfg.channels)
        stego_img == OpenImage(file)
        img_shape == Shape(stego_img)
    IN  IF cfg.bits = 0 THEN ExtractResult("ZeroDivisionError", cfg, << >>, << >>)
        ELSE TheOne({ ExtractHeader(stego_img.data, img_shape, all_positions, cfg) :
                      all_positions \in { AllPositions(img_shape, cfg.password,
                                                       selected_channels) } })

----------------------------------------------------------------------------
(* One caller: embed, then possibly a change of the stored image, then     *)
(* extract.                                                                *)

Init ==
    /\ \E c \in Carriers : fs = [n \in FileNames |-> IF n = c.name THEN c.img ELSE NoFile]
    /\ stego = NoFile
    /\ emb = EmbNone
    /\ tamper = -1
    /\ ext = ExtNone
    /\ calls = << >>
    /\ unit = UnitNone
    /\ an = AnNone

EmbRecord(status, carrier_path, before, payload_data, cfg, loc, metrics) ==
    [status |-> status, carrier_path |-> carrier_path, before |-> before,
     payload |-> payload_data, cfg |-> cfg, capacity |-> loc.capacity,
     frame |-> loc.frame, frame_len |-> loc.frame_len,
     selected_channels |-> loc.selected_channels, positions_needed |-> loc.positions_needed,
     positions |-> loc.positions, positions_len |-> loc.positions_len, metrics |-> metrics]

\* embed(carrier_path, payload_data, bits, channels, password, encrypt), the
\* whole call (lines 58-127); loc holds its locals once the stego image is
\* built in memory.
EmbedCall(carrier_path, payload_data, cfg, loc) ==
    IF loc.status = "CapacityExceeded"
    THEN /\ emb' = EmbRecord("CapacityExceeded", carrier_path, fs[carrier_path],
                             payload_data, cfg, loc, EmbNone.metrics)
         /\ UNCHANGED << fs, stego >>
    ELSE
    \* stego_img.save(stego_path), open(stego_path).read(), os.remove(stego_path)
    LET stego_path == StegoPath(carrier_path)
        saved    == [fs EXCEPT ![stego_path] = loc.stego_img]
        contents == saved[stego_path]
        removed  == [saved EXCEPT ![stego_path] = NoFile]
        ret      == EmbedReturn(loc, payload_data, cfg)
    IN  /\ fs' = removed
        /\ stego' = IF ret.status = "ok" THEN contents ELSE NoFile
        /\ emb' = EmbRecord(ret.status, carrier_path, fs[carrier_path], payload_data,
                            cfg, loc, ret.metrics)

Embed ==
    /\ emb.status = "none"
    /\ an.status = "none"
    /\ \E carrier_path \in { n \in FileNames : fs[n] # NoFile } :
         \E cfg \in EmbedConfigs(carrier_path, fs[carrier_path]) :
           \E n \in PayloadLengths(fs[carrier_path],
                                   calculate_capacity(OpenImage(fs[carrier_path]), cfg.bits,
                                                      Len(cfg.channels))),
              d \in Draws(cfg) :
             \E loc \in { embed_in_memory(fs[carrier_path], PayloadOfLen(n), cfg,
                                          Randomness(d)) } :
               EmbedCall(carrier_path, PayloadOfLen(n), cfg, loc)
    /\ UNCHANGED << tamper, ext, calls, unit, an >>

\* The frame bits stored in the image that a run may flip: the first bits of
\* the body, its last one, and the eight bits of its third byte from the end
\* (in a Fernet token, which ends in "==", the last character to carry data).
StoredBits == Min(emb.frame_len * 8, emb.positions_len * emb.cfg.bits)

TamperBits ==
    { k \in { HEADER_SIZE * 8 + j : j \in 0..(MaxTamper - 1) } \cup { StoredBits - 1 }
             \cup { StoredBits - 24 + j : j \in 0..7 } :
        k >= HEADER_SIZE * 8 /\ k < StoredBits }

\* The image with frame bit k flipped: the bit sits in the slot the schedule
\* of the embedding gave it.
FlipFrameBit(img, cfg, k) ==
    LET positions == AllPositions(Shape(img), cfg.password, get_channel_indices(cfg.channels))
        at    == SampleIndex(Shape(img), positions[(k \div cfg.bits) + 1])
        place == Pow2(cfg.bits - 1 - (k % cfg.bits))
    IN  [img EXCEPT !.data[at] = IF BitAt(@, cfg.bits - 1 - (k % cfg.bits)) = 1
                                 THEN @ - place ELSE @ + place]

Tamper ==
    /\ emb.status = "ok"
    /\ tamper = -1
    /\ ext.status = "none"
    /\ \E k \in TamperBits :
         /\ tamper' = k
         /\ stego' = FlipFrameBit(stego, emb.cfg, k)
    /\ UNCHANGED << fs, emb, ext, calls, unit, an >>

\* The configurations extract is called with: the one of the embedding, and
\* that one with the password, the bit depth, the channel list or the
\* encrypt flag replaced.
ExtractConfigs(cfg) ==
    IF tamper # -1 THEN { cfg }
    ELSE { cfg, [cfg EXCEPT !.encrypt = ~@], [cfg EXCEPT !.channels = << >>] }
         \cup { [cfg EXCEPT !.password = pw] : pw \in Passwords }
         \cup { [cfg EXCEPT !.bits = b] : b \in 0..MaxBits }

Extract ==
    /\ emb.status = "ok"
    /\ ext.status = "none"
    /\ \E cfg \in ExtractConfigs(emb.cfg) : ext' = TheOne({ extract(stego, cfg) })
    /\ UNCHANGED << fs, stego, emb, tamper, calls, unit, an >>

Next == Embed \/ Tamper \/ Extract

Spec == Init /\ [][Next]_vars

----------------------------------------------------------------------------
(* Properties of the single caller.                                        *)

\* The channel list names a set of channels: known names, none twice.
IsChannelSet(channels) ==
    /\ \A i \in DOMAIN channels : IsKnownChannel(channels[i])
    /\ \A i, j \in DOMAIN channels : channels[i] = channels[j] => i = j

EmbValid == ValidConfig(emb.cfg.bits, emb.cfg.channels)

Encrypting(cfg) == cfg.encrypt /\ cfg.password # NoPassword

\* The frame the embedding built went into the image whole.
FrameWritten == emb.positions_len >= emb.positions_needed

\* extract was called on the image as embed returned it.
Extracted == emb.status = "ok" /\ tamper = -1 /\ ext.status # "none"

\* C1.  Round trip: for a valid configuration and a payload no longer than
\* the capacity, extract with the configuration of the embedding, applied to
\* the image embed returned, returns exactly the payload.
RoundTrip ==
    (Extracted /\ EmbValid /\ Len(emb.payload) <= emb.capacity /\ ext.cfg = emb.cfg)
        => (ext.status = "ok" /\ ext.payload = emb.payload)

\* C2.  Capacity boundary: for a valid configuration, embed of a payload of
\* exactly capacity bytes succeeds and returns the metrics, and embed of a
\* payload of capacity + 1 bytes fails with CapacityExceeded.
CapacityBoundary ==
    (emb.status # "none" /\ EmbValid)
        => /\ Len(emb.payload) = emb.capacity =>
                (emb.status = "ok" /\ emb.metrics.capacity_bytes = emb.capacity)
           /\ Len(emb.payload) = emb.capacity + 1 => emb.status = "CapacityExceeded"

\* C3.  Whenever embed returns success the schedule held as many slots as
\* the header and the frame body need, so that every bit of the frame was
\* written; a call whose schedule is too short ends in CapacityExceeded.
ScheduleLongEnough ==
    (emb.status # "none" /\ EmbValid)
        => /\ emb.status = "ok" => FrameWritten
           /\ emb.status # "CapacityExceeded" => FrameWritten

\* extract was called with the configuration of the embedding, a valid
\* one, but for a different password.
OtherPassword ==
    /\ Extracted
    /\ EmbValid
    /\ emb.cfg.password # NoPassword
    /\ ext.cfg.password \notin { NoPassword, emb.cfg.password }
    /\ ext.cfg = [emb.cfg EXCEPT !.password = ext.cfg.password]

\* C4 as stated.  Password sensitivity: after an embedding with a password,
\* extract with any different password ends in InvalidFrame or in
\* DecryptionFailure and never returns a payload.
WrongPasswordRejected ==
    OtherPassword => ext.status \in { "InvalidFrame", "DecryptionFailure" }

\* C4.  After an embedding of a valid configuration with a password, extract
\* with a different password whose seed is the same reads the same frame: it returns the
\* embedded payload when the body is not encrypted, and ends in
\* DecryptionFailure when it is (in IndexError when the frame did not fit the
\* image).  With a password of another seed it ends in InvalidFrame unless the
\* four bytes at the head of its own schedule are the magic.
WrongPasswordOutcome ==
    OtherPassword =>
        IF Seed(ext.cfg.password) = Seed(emb.cfg.password)
        THEN IF ~emb.cfg.encrypt THEN ext.status = "ok" /\ ext.payload = emb.payload
             ELSE IF FrameWritten THEN ext.status = "DecryptionFailure"
             ELSE ext.status = "IndexError"
        ELSE ext.status = "InvalidFrame" \/ SubSeq(ext.header, 1, 4) = MAGIC_BYTES

\* An unencrypted payload came back under a different password.
WrongPasswordReturns ==
    /\ OtherPassword
    /\ ~emb.cfg.encrypt
    /\ Seed(ext.cfg.password) = Seed(emb.cfg.password)
    /\ Len(emb.payload) > 0
    /\ ext.status = "ok"
    /\ ext.payload = emb.payload

\* extract was called, with the configuration of the embedding, after one
\* stored bit of the frame body was flipped.
TamperedBody ==
    /\ emb.status = "ok"
    /\ EmbValid
    /\ tamper >= HEADER_SIZE * 8
    /\ ext.status # "none"
    /\ ext.cfg = emb.cfg

\* C5.  Tamper detection: flipping any single stored bit of a frame body
\* that was written whole makes extract fail (with IntegrityError), in every
\* configuration, encryption included.
TamperRejected == (TamperedBody /\ FrameWritten) => ext.status # "ok"

\* C6.  Config validation: embed and extract called with a bit depth outside
\* {1,2} or with an empty channel list end in InvalidConfig.
InvalidConfigRejected ==
    /\ (emb.status # "none" /\ (emb.cfg.bits \notin { 1, 2 } \/ emb.cfg.channels = << >>))
          => emb.status = "InvalidConfig"
    /\ (ext.status # "none" /\ (ext.cfg.bits \notin { 1, 2 } \/ ext.cfg.channels = << >>))
          => ext.status = "InvalidConfig"

\* C7.  embed never modifies the carrier: after every call, successful or
\* failing, the file at carrier_path holds the image it held before.
CarrierUnmodified ==
    emb.status # "none" => fs[emb.carrier_path] = emb.before

\* C10.  The capacity computed for an H x W image, bit depth b and channel
\* set S, and reported as capacity_bytes, is floor((H*W*b*|S| - 128) / 8).
CapacityFormula ==
    (emb.status # "none" /\ IsChannelSet(emb.cfg.channels))
        => LET H == emb.before.height
               W == emb.before.width
               b == emb.cfg.bits
               S == { emb.cfg.channels[i] : i \in DOMAIN emb.cfg.channels }
               expected == (H * W * b * Cardinality(S) - 128) \div 8
           IN  /\ emb.capacity = expected
               /\ emb.status = "ok" => emb.metrics.capacity_bytes = expected

\* embed reported the capacity of an image that is not square.
CapacityReported ==
    /\ emb.status = "ok"
    /\ IsChannelSet(emb.cfg.channels)
    /\ emb.metrics.capacity_bytes > 0
    /\ emb.metrics.capacity_bytes = emb.capacity
    /\ emb.before.height # emb.before.width

\* embed built a frame: it went past the capacity test.
Framed == emb.status # "none" /\ emb.frame # << >>

\* The body of the frame embed built: what follows its first sixteen bytes.
FrameBody == SubSeq(emb.frame, HEADER_SIZE + 1, Len(emb.frame))

\* C11.  Framing: the frame is sixteen header bytes followed by the bytes
\* given to the framer (the payload, or its ciphertext when embed encrypts),
\* so its length is theirs plus 16; the header is the magic "STEG", the
\* length of those bytes as a big-endian u32, the CRC-32 of the plaintext as
\* a big-endian u32, and a reserved u32 equal to 0.
Framing ==
    Framed =>
        /\ Len(emb.frame) = Len(FrameBody) + 16
        /\ SubSeq(emb.frame, 1, 4) = << 83, 84, 69, 71 >>
        /\ emb.frame[5] = 0 /\ emb.frame[6] = 0
        /\ emb.frame[7] * 256 + emb.frame[8] = Len(FrameBody)
        /\ SubSeq(emb.frame, 9, 12) = crc32(emb.payload)
        /\ SubSeq(emb.frame, 13, 16) = << 0, 0, 0, 0 >>
        /\ IF Encrypting(emb.cfg)
           THEN decrypt_payload(FrameBody, emb.cfg.password) = [ok |-> TRUE, data |-> emb.payload]
           ELSE FrameBody = emb.payload

\* The frame of a one-byte payload, with the CRC-32 of that byte.
FramedOneByte ==
    /\ Framed
    /\ ~Encrypting(emb.cfg)
    /\ emb.payload = << 94 >>
    /\ emb.frame = << 83, 84, 69, 71, 0, 0, 0, 1, 94, 209, 147, 126, 0, 0, 0, 0, 94 >>

\* C13.  extract returns a payload only when the header it recovered carries
\* the magic "STEG" and the CRC-32 of the plaintext it returns equals the CRC
\* field of that header; every other call ends in an error and returns no
\* payload.
ExtractVerified ==
    /\ ext.status = "ok" =>
           /\ Len(ext.header) = 16
           /\ SubSeq(ext.header, 1, 4) = << 83, 84, 69, 71 >>
           /\ crc32(ext.payload) = SubSeq(ext.header, 9, 12)
    /\ ext.status \notin { "none", "ok" } =>
           (ext.payload = << >> /\ ext.payload_type = "")

\* extract returned the plaintext of a ciphertext body.
DecryptedReturned ==
    /\ ext.status = "ok"
    /\ Encrypting(ext.cfg)
    /\ Len(ext.payload) > 0
    /\ ext.payload = emb.payload

\* C14.  The metrics of a successful embed: payload_size is the length of
\* the payload, bits_used the bit depth and channels_used the channel list of
\* the call, embedding_efficiency is payload_size / capacity_bytes (held as
\* the pair of the two) and lies between 0 and 1.
MetricsConsistent ==
    emb.status = "ok" =>
        LET m == emb.metrics
        IN  /\ m.payload_size = Len(emb.payload)
            /\ m.bits_used = emb.cfg.bits
            /\ m.channels_used = emb.cfg.channels
            /\ m.embedding_efficiency = << m.payload_size, m.capacity_bytes >>
            /\ m.capacity_bytes > 0
            /\ 0 <= m.embedding_efficiency[1]
            /\ m.embedding_efficiency[1] <= m.embedding_efficiency[2]

\* An embedding that filled the capacity: its efficiency is 1.
FullEfficiency ==
    /\ emb.status = "ok"
    /\ Len(emb.payload) > 0
    /\ emb.metrics.embedding_efficiency = << Len(emb.payload), Len(emb.payload) >>

\* extract was called with the shape, channel list, password and bit depth
\* of the embedding, of depth 1 or 2, and read a header it accepted.
SameSchedule ==
    /\ emb.status = "ok"
    /\ ext.status \notin { "none", "ZeroDivisionError", "InvalidFrame" }
    /\ ext.header # << >>
    /\ emb.cfg.bits \in { 1, 2 }
    /\ ext.cfg.bits = emb.cfg.bits
    /\ ext.cfg.channels = emb.cfg.channels
    /\ ext.cfg.password = emb.cfg.password

\* C24.  For the same shape, channel list, password and bit depth 1 or 2,
\* the slots extract reads for the header followed by the slots it reads for
\* the payload are exactly, and in the same order, the slots in which embed
\* wrote the header and the frame body; no header slot is a payload slot.
SlotsAgree ==
    SameSchedule =>
        /\ ext.header_positions \o ext.payload_positions = emb.positions
        /\ Len(ext.header_positions) = (HEADER_SIZE * 8) \div emb.cfg.bits
        /\ \A i \in DOMAIN ext.header_positions, j \in DOMAIN ext.payload_positions :
             ext.header_positions[i] # ext.payload_positions[j]

\* The slots of a frame with a body, in a shuffled schedule.
ShuffledSlotsRead ==
    /\ SameSchedule
    /\ ext.status = "ok"
    /\ emb.cfg.password # NoPassword
    /\ Len(ext.payload_positions) >= 8
    /\ Len(emb.payload) > 0

\* The image embed returned is at hand as it was returned.
Returned == emb.status = "ok" /\ tamper = -1

\* The number of scheduled slots used for the frame.
SlotsUsed == Min(emb.positions_len, ((emb.frame_len * 8 + emb.cfg.bits) - 1) \div emb.cfg.bits)

\* The bit group assigned to slot p: the next bits of the frame, the first
\* one highest, with zeros after the last bit of the frame.
BitGroup(p) ==
    LET bit(j) == IF (p - 1) * emb.cfg.bits + j < emb.frame_len * 8
                  THEN BitAt(emb.frame[(((p - 1) * emb.cfg.bits + j) \div 8) + 1],
                             7 - (((p - 1) * emb.cfg.bits + j) % 8))
                  ELSE 0
    IN  SumRange(LAMBDA j : bit(j) * Pow2(emb.cfg.bits - 1 - j), 0, emb.cfg.bits - 1)

\* C25.  Frame effect of embedding: in the stego grid every sample that is
\* not one of the scheduled slots used for the frame equals the original
\* sample (the samples of an unselected channel and of the alpha channel
\* among them), and every used slot differs from the original only in its
\* low bitDepth bits, which equal the bit group assigned to that slot.
FrameEffect ==
    (Returned /\ IsChannelSet(emb.cfg.channels)) =>
        \A original \in { OpenImage(emb.before) } :
          \A used \in { { SampleIndex(Shape(original), emb.positions[p]) : p \in 1..SlotsUsed } } :
            /\ stego.mode = original.mode
            /\ Len(stego.data) = Len(original.data)
            /\ \A k \in DOMAIN original.data :
                 k \notin used => stego.data[k] = original.data[k]
            /\ \A p \in 1..SlotsUsed :
                 \A k \in { SampleIndex(Shape(original), emb.positions[p]) } :
                   /\ stego.data[k] \div Pow2(emb.cfg.bits)
                        = original.data[k] \div Pow2(emb.cfg.bits)
                   /\ stego.data[k] % Pow2(emb.cfg.bits) = BitGroup(p)

\* Two bits a slot were written into an image with an alpha channel, in a
\* shuffled schedule, and changed it.
AlphaCarrierWritten ==
    /\ Returned
    /\ emb.before.mode = "RGBA"
    /\ emb.cfg.bits = 2
    /\ emb.cfg.password # NoPassword
    /\ stego.data # emb.before.data
    /\ SlotsUsed >= HEADER_SIZE * 4

\* C28.  The MSE that embed computes on the 8-bit sample arrays equals the
\* true mean of (orig - stego)^2 taken over all samples as integers, for bit
\* depth 1 or 2 (the sums are compared, over the same number of samples),
\* and PSNR is +infinity exactly when no sample was changed.
TrueMse ==
    (Returned /\ emb.cfg.bits \in { 1, 2 }) =>
        \A original \in { OpenImage(emb.before).data } :
          /\ emb.metrics.sq_sum
               = SumRange(LAMBDA k : (original[k] - stego.data[k]) * (original[k] - stego.data[k]),
                          1, Len(original))
          /\ emb.metrics.psnr_inf <=> stego.data = original

\* A sample was raised by three: its difference wraps to 253 in 8 bits.
WrappedDifference ==
    /\ Returned
    /\ emb.cfg.bits = 2
    /\ ~emb.metrics.psnr_inf
    /\ \E k \in DOMAIN stego.data : stego.data[k] = OpenImage(emb.before).data[k] + 3

\* The payload passed the capacity check of embed.
PassedCapacityCheck == emb.status \notin { "none", "CapacityExceeded" }

\* C29.  For every channel list that embed accepts, lists with unrecognised
\* or repeated names among them, the number of channels used to compute the
\* capacity equals the number of distinct channel indices the position
\* schedule enumerates, so that a payload that passes the capacity check and
\* is framed as it is has enough distinct slots.
ChannelCountAgrees ==
    PassedCapacityCheck =>
        /\ Len(emb.cfg.channels)
             = Cardinality({ emb.selected_channels[i] : i \in DOMAIN emb.selected_channels })
        /\ ~Encrypting(emb.cfg) =>
             Cardinality({ emb.positions[p] : p \in DOMAIN emb.positions })
                 >= emb.positions_needed

----------------------------------------------------------------------------
(* Two embeddings in flight at once: either two threads that call          *)
(* SteganographyEngine.embed, or two requests to /api/embed, which the     *)
(* event loop interleaves where the handler awaits.                        *)

MaxParPayload == 2

Procs == { 1, 2 }

TEMP_DIR == "tmp"

ParConfig == Config(1, DefaultChannels, NoPassword, FALSE)

FirstImage == MakeImage("RGB", SmallSide, SmallSide)

SecondImage ==
    [FirstImage EXCEPT !.data = Tabulate(LAMBDA k : (k * 91 + 5) % 256,
                                         SmallSide * SmallSide * 3)]

\* A file another call is still writing.
PartialFile == [mode |-> "partial", height |-> 0, width |-> 0, data |-> << >>]

ParPaths ==
    { << d, n >> : d \in { "d1", "d2" }, n \in { "a.png", "b.png", TempName } }
    \cup { << TEMP_DIR, n >> : n \in { "carrier_x.png", "carrier_y.png", TempName } }

NewCall(kind, carrier_path, own, n, via) ==
    [kind |-> kind, pc |-> "start", carrier_path |-> carrier_path, own |-> own,
     payload |-> PayloadOfLen(n), via |-> via, stego_img |-> NoFile,
     unlinked |-> FALSE, status |-> "running", result |-> NoFile]

\* Two threads, each with a carrier of its own, in one directory or in two.
ThreadRuns ==
    { << NewCall("thread", << "d1", "a.png" >>, FirstImage, n1, "direct"),
         NewCall("thread", << d, "b.png" >>, SecondImage, n2, "direct") >> :
        d \in { "d1", "d2" }, n1 \in 1..MaxParPayload, n2 \in 1..MaxParPayload }

\* Two requests, each uploading a carrier of its own, under one file name
\* or under two, the payload sent as text or as a file.
RequestRuns ==
    { << NewCall("request", << TEMP_DIR, "carrier_x.png" >>, FirstImage, n1, v1),
         NewCall("request", << TEMP_DIR, f >>, SecondImage, n2, v2) >> :
        f \in { "carrier_x.png", "carrier_y.png" }, v1 \in { "text", "file" },
        v2 \in { "text", "file" }, n1 \in 1..MaxParPayload, n2 \in 1..MaxParPayload }

InitPar ==
    /\ calls \in ThreadRuns \cup RequestRuns
    /\ fs = [path \in ParPaths |->
               IF \E p \in Procs : calls[p].kind = "thread" /\ calls[p].carrier_path = path
               THEN (CHOOSE c \in { calls[p] : p \in Procs } : c.carrier_path = path).own
               ELSE NoFile]
    /\ stego = NoFile
    /\ emb = EmbNone
    /\ tamper = -1
    /\ ext = ExtNone
    /\ unit = UnitNone
    /\ an = AnNone

Raise(p, error) == calls' = [calls EXCEPT ![p].pc = "done", ![p].status = error]

\* Lines 62-102 in a thread: the carrier is read and the stego image built.
ThreadOpen(p) ==
    /\ calls[p].kind = "thread"
    /\ calls[p].pc = "start"
    /\ \E loc \in { embed_in_memory(fs[calls[p].carrier_path], calls[p].payload,
                                     ParConfig, Randomness(1)) } :
         IF loc.status # "ok" THEN Raise(p, loc.status)
         ELSE calls' = [calls EXCEPT ![p].pc = "save", ![p].stego_img = loc.stego_img]
    /\ UNCHANGED << fs, stego, emb, tamper, ext, unit, an >>

\* Line 106, stego_img.save(stego_path): the file is created or truncated...
ThreadSaveBegin(p) ==
    /\ calls[p].kind = "thread"
    /\ calls[p].pc = "save"
    /\ fs' = [fs EXCEPT ![StegoPath(calls[p].carrier_path)] = PartialFile]
    /\ calls' = [calls EXCEPT ![p].pc = "saving", ![p].unlinked = FALSE]
    /\ UNCHANGED << stego, emb, tamper, ext, unit, an >>

\* ... and written; a file removed meanwhile has no name any more.
ThreadSaveEnd(p) ==
    /\ calls[p].kind = "thread"
    /\ calls[p].pc = "saving"
    /\ fs' = IF calls[p].unlinked THEN fs
             ELSE [fs EXCEPT ![StegoPath(calls[p].carrier_path)] = calls[p].stego_img]
    /\ calls' = [calls EXCEPT ![p].pc = "read"]
    /\ UNCHANGED << stego, emb, tamper, ext, unit, an >>

\* Lines 109-110, open(stego_path, "rb") and f.read().
ThreadRead(p) ==
    /\ calls[p].kind = "thread"
    /\ calls[p].pc = "read"
    /\ LET contents == fs[StegoPath(calls[p].carrier_path)]
       IN  IF contents = NoFile THEN Raise(p, "FileNotFoundError")
           ELSE calls' = [calls EXCEPT ![p].pc = "remove", ![p].result = contents]
    /\ UNCHANGED << fs, stego, emb, tamper, ext, unit, an >>

\* Line 113, os.remove(stego_path), and the return.
ThreadRemove(p) ==
    /\ calls[p].kind = "thread"
    /\ calls[p].pc = "remove"
    /\ LET stego_path == StegoPath(calls[p].carrier_path)
       IN  IF fs[stego_path] = NoFile
           THEN /\ Raise(p, "FileNotFoundError")
                /\ fs' = fs
           ELSE /\ fs' = [fs EXCEPT ![stego_path] = NoFile]
                /\ calls' = [q \in Procs |->
                               IF q = p THEN [calls[p] EXCEPT !.pc = "done", !.status = "ok"]
                               ELSE IF /\ calls[q].pc = "saving"
                                       /\ StegoPath(calls[q].carrier_path) = stego_path
                               THEN [calls[q] EXCEPT !.unlinked = TRUE]
                               ELSE calls[q]]
    /\ UNCHANGED << stego, emb, tamper, ext, unit, an >>

\* The handler from the engine call on (main.py lines 119-137), run without
\* a break: embed, whose temporary file comes and goes, then the removal of
\* the carrier file; on an exception the carrier file is removed if there.
HandlerEmbed(p, files) ==
    LET carrier_path == calls[p].carrier_path
        file == files[carrier_path]
    IN  IF file = NoFile
        THEN /\ Raise(p, "FileNotFoundError")
             /\ fs' = files
        ELSE \E loc \in { embed_in_memory(file, calls[p].payload, ParConfig,
                                          Randomness(1)) } :
               /\ fs' = [files EXCEPT ![carrier_path] = NoFile]
               /\ IF loc.status # "ok" THEN Raise(p, loc.status)
                  ELSE calls' = [calls EXCEPT ![p].pc = "done", ![p].status = "ok",
                                              ![p].result = loc.stego_img]

\* main.py lines 88-109 with payload_file: the carrier is saved, then the
\* handler awaits the payload.
RequestUpload(p) ==
    /\ calls[p].kind = "request"
    /\ calls[p].pc = "start"
    /\ calls[p].via = "file"
    /\ fs' = [fs EXCEPT ![calls[p].carrier_path] = calls[p].own]
    /\ calls' = [calls EXCEPT ![p].pc = "awaiting"]
    /\ UNCHANGED << stego, emb, tamper, ext, unit, an >>

\* The rest of the handler once the payload is read.
RequestResume(p) ==
    /\ calls[p].kind = "request"
    /\ calls[p].pc = "awaiting"
    /\ HandlerEmbed(p, fs)
    /\ UNCHANGED << stego, emb, tamper, ext, unit, an >>

\* The handler with payload_text: it never awaits.
RequestText(p) ==
    /\ calls[p].kind = "request"
    /\ calls[p].pc = "start"
    /\ calls[p].via = "text"
    /\ HandlerEmbed(p, [fs EXCEPT ![calls[p].carrier_path] = calls[p].own])
    /\ UNCHANGED << stego, emb, tamper, ext, unit, an >>

NextPar ==
    \E p \in Procs :
        \/ ThreadOpen(p)
        \/ ThreadSaveBegin(p)
        \/ ThreadSaveEnd(p)
        \/ ThreadRead(p)
        \/ ThreadRemove(p)
        \/ RequestUpload(p)
        \/ RequestResume(p)
        \/ RequestText(p)

SpecPar == InitPar /\ [][NextPar]_vars

\* The stego image of a call's own carrier and payload.
OwnStego(p) ==
    embed_in_memory(calls[p].own, calls[p].payload, ParConfig, Randomness(1)).stego_img

\* C8.  Parallel independence: of two embeddings of different carriers run
\* at once, each one that has ended has succeeded and returned the stego
\* image of its own carrier and payload.
ParallelIndependence ==
    \A p \in DOMAIN calls :
        calls[p].pc = "done" => (calls[p].status = "ok" /\ calls[p].result = OwnStego(p))

----------------------------------------------------------------------------
(* The helper methods called directly, as the unit tests call them:        *)
(* _calculate_capacity on one image for several bit depths and channel     *)
(* counts, _validate_header on a byte string, and extract on an image      *)
(* whose first slots hold a given byte string.                             *)

MaxUnitSide == 4

\* The side of the image of the unit tests.
TestSide == 100

UnitSides == 1..MaxUnitSide \cup { TestSide }

\* (bits, num_channels) of the calls of _calculate_capacity.
CapacityArgs == { 1, 2 } \X { 1, 3 }

\* b'INVALID_HEADER_DATA'
InvalidHeaderData ==
    << 73, 78, 86, 65, 76, 73, 68, 95, 72, 69, 65, 68, 69, 82, 95, 68, 65, 84, 65 >>

\* The byte strings a header is looked for in: a frame and its prefixes, a
\* header with one byte of the magic, of the length or of the reserved field
\* replaced, and the string of the unit test.
UnitHeaders ==
    LET frame  == create_payload_with_header(PayloadOfLen(2), << >>)
        header == SubSeq(frame, 1, HEADER_SIZE)
    IN  { SubSeq(frame, 1, k) : k \in { 0, 3, 4, 15, 16, 17, 18 } }
        \cup { [header EXCEPT ![1] = 115], [header EXCEPT ![4] = 103],
               [header EXCEPT ![16] = 1], [header EXCEPT ![8] = 0],
               [header EXCEPT ![8] = 9], [header EXCEPT ![6] = 1],
               InvalidHeaderData, SubSeq(InvalidHeaderData, 1, HEADER_SIZE) }

UnitConfig == Config(1, DefaultChannels, NoPassword, FALSE)

\* An image whose first slots, in the order of UnitConfig, hold the bytes.
ImageHolding(bytes) ==
    LET img == MakeImage("RGB", SmallSide, SmallSide)
        positions == generate_embedding_positions(Shape(img), Len(bytes) * 8, NoPassword,
                                                  get_channel_indices(DefaultChannels), 0)
    IN  [img EXCEPT !.data = embed_data(img.data, Shape(img), bytes, positions, 1)]

InitUnit ==
    /\ fs = [n \in FileNames |-> NoFile]
    /\ stego = NoFile
    /\ emb = EmbNone
    /\ tamper = -1
    /\ ext = ExtNone
    /\ calls = << >>
    /\ \E height \in UnitSides, width \in UnitSides : unit = UnitStart(height, width)
    /\ an = AnNone

\* engine._calculate_capacity(img, bits, num_channels)
CallCapacity ==
    /\ unit.op \in { "none", "_calculate_capacity" }
    /\ \E args \in CapacityArgs \ DOMAIN unit.capacity :
         unit' = [unit EXCEPT
                    !.op = "_calculate_capacity",
                    !.capacity = (args :> calculate_capacity(
                                             [width |-> unit.width, height |-> unit.height],
                                             args[1], args[2])) @@ @]
    /\ UNCHANGED << fs, stego, emb, tamper, ext, calls, an >>

\* engine._validate_header(header_data)
CallValidateHeader ==
    /\ unit.op = "none"
    /\ \E header_data \in UnitHeaders :
         unit' = [unit EXCEPT !.op = "_validate_header", !.header_data = header_data,
                              !.accepted = validate_header(header_data)]
    /\ UNCHANGED << fs, stego, emb, tamper, ext, calls, an >>

\* engine.extract(stego_path) with the default arguments, on an image that
\* holds a byte string or on the plain image of the size of the calls.
CallExtract ==
    /\ unit.op = "none"
    /\ \E img \in { ImageHolding(h) : h \in { b \in UnitHeaders : Len(b) >= HEADER_SIZE } }
                  \cup { MakeImage("RGB", unit.height, unit.width) :
                           x \in { y \in { unit.height } :
                                     y <= MaxUnitSide /\ unit.width <= MaxUnitSide } } :
         /\ stego' = img
         /\ ext' = TheOne({ extract(img, UnitConfig) })
    /\ unit' = [unit EXCEPT !.op = "extract"]
    /\ UNCHANGED << fs, emb, tamper, calls, an >>

\* The channel lists and the passwords of the direct calls for positions.
UnitChannelLists == ValidChannelLists \cup OtherChannelLists

\* engine._generate_embedding_positions(img_shape, positions_needed, password,
\* selected_channels) for as many positions as the loops list, on an RGB or
\* an RGBA array of the size of the image.
CallPositions ==
    /\ unit.op = "none"
    /\ unit.height <= MaxUnitSide /\ unit.width <= MaxUnitSide
    /\ \E channels \in UnitChannelLists, password \in EmbedPasswords, bands \in { 3, 4 } :
         \E img_shape \in { << unit.height, unit.width, bands >> },
            selected_channels \in { get_channel_indices(channels) } :
           \E positions \in { generate_embedding_positions(
                                   img_shape,
                                   unit.height * unit.width * Len(selected_channels),
                                   password, selected_channels, 0) } :
             unit' = [unit EXCEPT
                        !.op = "_generate_embedding_positions",
                        !.schedule = [img_shape |-> img_shape, channels |-> channels,
                                      password |-> password, positions |-> positions]]
    /\ UNCHANGED << fs, stego, emb, tamper, ext, calls, an >>

NextUnit == CallCapacity \/ CallValidateHeader \/ CallExtract \/ CallPositions

SpecUnit == InitUnit /\ [][NextUnit]_vars

\* sixteen bytes that begin with the magic "STEG"
WellFormedHeader(header_data) ==
    Len(header_data) = 16 /\ SubSeq(header_data, 1, 4) = << 83, 84, 69, 71 >>

\* C12.  Header validation accepts a byte string if and only if it is 16
\* bytes long and begins with "STEG": the header of a frame is accepted, and
\* extract ends in InvalidFrame exactly when the sixteen bytes it read are
\* not accepted.
HeaderValidation ==
    /\ unit.op = "_validate_header" =>
           (unit.accepted <=> WellFormedHeader(unit.header_data))
    /\ (unit.op = "extract" /\ ext.header # << >>) =>
           (ext.status = "InvalidFrame" <=> ~WellFormedHeader(ext.header))

\* A byte string of the right magic and the wrong length was rejected.
LongHeaderRejected ==
    /\ unit.op = "_validate_header"
    /\ Len(unit.header_data) = 17
    /\ SubSeq(unit.header_data, 1, 4) = MAGIC_BYTES
    /\ ~unit.accepted

\* The capacities computed so far for the image of the direct calls.
Computed(bits, num_channels) == << bits, num_channels >> \in DOMAIN unit.capacity

\* C15 as stated.  Capacity ordering: for any image the capacity is positive,
\* with bit depth 2 it is strictly greater than with bit depth 1 for the same
\* channel count, and with one channel it is strictly smaller than with three
\* for the same bit depth.
CapacityOrdering ==
    /\ \A args \in DOMAIN unit.capacity : unit.capacity[args] > 0
    /\ \A n \in { 1, 3 } :
         (Computed(1, n) /\ Computed(2, n))
             => unit.capacity[<< 2, n >>] > unit.capacity[<< 1, n >>]
    /\ \A b \in { 1, 2 } :
         (Computed(b, 1) /\ Computed(b, 3))
             => unit.capacity[<< b, 1 >>] < unit.capacity[<< b, 3 >>]

\* C15.  For an image of H x W pixels the capacity for bit depth b and n
\* channels is positive exactly when H*W*b*n >= 136; it is strictly greater
\* with bit depth 2 than with bit depth 1 exactly when H*W*n >= 4; and it is
\* strictly smaller with one channel than with three exactly when H*W*b >= 3.
CapacityOrderingSized ==
    LET pixels == unit.height * unit.width
    IN  /\ \A args \in DOMAIN unit.capacity :
             unit.capacity[args] > 0 <=> pixels * args[1] * args[2] >= 136
        /\ \A n \in { 1, 3 } :
             (Computed(1, n) /\ Computed(2, n))
                 => (unit.capacity[<< 2, n >>] > unit.capacity[<< 1, n >>] <=> pixels * n >= 4)
        /\ \A b \in { 1, 2 } :
             (Computed(b, 1) /\ Computed(b, 3))
                 => (unit.capacity[<< b, 1 >>] < unit.capacity[<< b, 3 >>] <=> pixels * b >= 3)

\* The capacities of the image of the unit tests, all computed.
TestImageCapacities ==
    /\ unit.height = TestSide /\ unit.width = TestSide
    /\ DOMAIN unit.capacity = CapacityArgs
    /\ unit.capacity[<< 1, 3 >>] = 3734
    /\ unit.capacity[<< 2, 3 >>] = 7484
    /\ unit.capacity[<< 1, 1 >>] = 1234

\* The image has fewer slots than the header needs.
HeaderOutOfReach == ext.slots * ext.cfg.bits < HEADER_SIZE * 8

\* The header read has the magic, and its length field asks for more slots
\* than remain after the header.
LengthOutOfReach ==
    /\ Len(ext.header) = HEADER_SIZE
    /\ SubSeq(ext.header, 1, 4) = MAGIC_BYTES
    /\ \/ ext.header[5] >= 128
       \/ ((UnpackU32(SubSeq(ext.header, 5, 8)) * 8 + ext.cfg.bits) - 1) \div ext.cfg.bits
            > ext.slots - (HEADER_SIZE * 8) \div ext.cfg.bits

\* C30.  extract never reads beyond the schedule: when the image has fewer
\* slots than the header needs, or when the length field of a header with
\* valid magic asks for more slots than remain after the header, extract
\* ends in InvalidFrame or IntegrityError and returns no payload.
ExtractInBounds ==
    (unit.op = "extract" /\ (HeaderOutOfReach \/ LengthOutOfReach)) =>
        /\ ext.status \in { "InvalidFrame", "IntegrityError" }
        /\ ext.payload = << >>

\* The addresses (row, col, channel) of an array of the shape, for the
\* channels the list names.
Addresses(img_shape, channels) ==
    { << row, col, ChannelMap(channels[i]) >> :
        row \in 0..(img_shape[1] - 1), col \in 0..(img_shape[2] - 1), i \in DOMAIN channels }

\* A schedule was generated for a list that names a set of channels.
ScheduledForSet ==
    /\ unit.op = "_generate_embedding_positions"
    /\ unit.schedule.channels # << >>
    /\ IsChannelSet(unit.schedule.channels)

\* C22.  The full position schedule, with or without a password, is a
\* permutation of all addresses (row, col, channel) with row < H, col < W and
\* channel in the channel set: its length is H*W*|channelSet| and no address
\* occurs twice.
SchedulePermutation ==
    ScheduledForSet =>
        LET positions == unit.schedule.positions
        IN  /\ Len(positions) = unit.height * unit.width * Len(unit.schedule.channels)
            /\ \A i, j \in DOMAIN positions : positions[i] = positions[j] => i = j
            /\ { positions[i] : i \in DOMAIN positions }
                   = Addresses(unit.schedule.img_shape, unit.schedule.channels)

\* A shuffled schedule of two channels that is not the raster order.
ShuffledSchedule ==
    /\ ScheduledForSet
    /\ unit.schedule.password # NoPassword
    /\ unit.schedule.channels = << "blue", "red" >>
    /\ unit.height = MaxUnitSide /\ unit.width = MaxUnitSide
    /\ unit.schedule.positions[1] # << 0, 0, 2 >>
    /\ Len(unit.schedule.positions) = 2 * MaxUnitSide * MaxUnitSide

\* (row, col, channel) comes no later than the other address in the order
\* row by row, column by column, ascending channel index.
RasterBefore(a, b) ==
    \/ a[1] < b[1]
    \/ a[1] = b[1] /\ a[2] < b[2]
    \/ a[1] = b[1] /\ a[2] = b[2] /\ a[3] <= b[3]

\* C23.  Without a password the schedule is the raster order: addresses are
\* listed row by row, column by column within a row, and within one pixel in
\* ascending channel index, for every channel list the caller passes.
RasterOrder ==
    (unit.op = "_generate_embedding_positions" /\ unit.schedule.password = NoPassword) =>
        \A i, j \in DOMAIN unit.schedule.positions :
            i < j => RasterBefore(unit.schedule.positions[i], unit.schedule.positions[j])

----------------------------------------------------------------------------
(* SteganalysisEngine.  A real number is held as an integer: in millionths *)
(* rounded down, but the p-value and the variance ratio in thousandths.    *)
(* The thresholds of the detectors are compared exactly, on the counts.    *)

Micro == 1000000

\* np.mean of an empty list
NaN == -1

\* ['red', 'green', 'blue'], the order of every loop over the channels
AnalysisChannels == << "red", "green", "blue" >>

\* channel.upper()
Upper(channel) ==
    IF channel = "red" THEN "RED" ELSE IF channel = "green" THEN "GREEN" ELSE "BLUE"

\* The counts the three detectors take of img_array[:, :, channel_idx]:
\* the samples and those of LSB 1 (lines 81-85), the horizontal pairs and
\* the regular ones (115-128), the 8x8 blocks of the LSB plane with the sum
\* of ones * zeros over them (168-172), and the ones of bit-plane 1 (179).
ChannelCounts(img, channel_idx) ==
    LET h  == img.height
        w  == img.width
        at(i, j) == img.data[(i * w + j) * Bands(img.mode) + channel_idx + 1]
        lsb(k)   == at((k - 1) \div w, (k - 1) % w) % 2
        bit1(k)  == (at((k - 1) \div w, (k - 1) % w) \div 2) % 2
        diff(k)  == at((k - 1) \div (w - 1), (k - 1) % (w - 1))
                        - at((k - 1) \div (w - 1), ((k - 1) % (w - 1)) + 1)
        regular(k) == IF diff(k) <= 1 /\ diff(k) >= -1 THEN 1 ELSE 0
        singular(k) == IF diff(k) >= 2 \/ diff(k) <= -2 THEN 1 ELSE 0
        down     == IF h > 8 THEN ((h - 9) \div 8) + 1 ELSE 0
        across   == IF w > 8 THEN ((w - 9) \div 8) + 1 ELSE 0
        cell(b, c) == at(((b - 1) \div across) * 8 + ((c - 1) \div 8),
                         ((b - 1) % across) * 8 + ((c - 1) % 8)) % 2
        spread(b) == Bind(SumRange(LAMBDA c : cell(b, c), 1, 64),
                          LAMBDA ones : ones * (64 - ones))
    IN  [total |-> h * w,
         ones |-> SumRange(lsb, 1, h * w),
         pairs |-> h * (w - 1),
         regular_pairs |-> SumRange(regular, 1, h * (w - 1)),
         singular_pairs |-> SumRange(singular, 1, h * (w - 1)),
         blocks |-> down * across,
         block_spread |-> SumRange(spread, 1, down * across),
         plane1_ones |-> SumRange(bit1, 1, h * w)]

\* The chi-square critical values (1 degree of freedom, in ten-thousandths)
\* of the p-values 0.0005, 0.0015, ..., 0.0495.
PFine ==
    << 121157, 100786, 91406, 85266, 80702, 77072, 74062, 71491, 69250, 67263,
       65480, 63864, 62385, 61024, 59762, 58587, 57488, 56455, 55482, 54561,
       53688, 52858, 52067, 51312, 50589, 49896, 49231, 48591, 47976, 47382,
       46809, 46255, 45719, 45200, 44698, 44210, 43736, 43276, 42828, 42392,
       41968, 41555, 41152, 40759, 40375, 40000, 39634, 39276, 38926, 38583 >>

\* and those of the p-values 0.10, 0.15, ..., 1.00.
PCoarse ==
    << 27055, 20723, 16424, 13233, 10742, 8735, 7083, 5707, 4549, 3573,
       2750, 2059, 1485, 1015, 642, 358, 158, 39, 0 >>

\* The p-value of stats.chisquare for |observed0 - observed1| = d of n, in
\* thousandths: to the nearest below 0.05, down to a twentieth above.
PValue(d, n) ==
    LET fine == Cardinality({ k \in 1..50 : d * d * 10000 <= PFine[k] * n })
    IN  IF fine < 50 THEN fine
        ELSE 50 + 50 * Cardinality({ j \in 1..19 : d * d * 10000 <= PCoarse[j] * n })

\* p_value < 0.05: the statistic d*d/n exceeds 3.8414588
Significant(d, n) ==
    LET whole == (d * d) \div n
        rest  == (d * d) % n
    IN  whole >= 4 \/ (whole = 3 /\ rest * 10000000 > 8414588 * n)

\* One entry of the results of _chi_square_test (lines 86-99).
chi_square_result(counts) ==
    LET observed0 == counts.total - counts.ones
        observed1 == counts.ones
        total_pixels == counts.total
        d == IF observed0 >= observed1 THEN observed0 - observed1 ELSE observed1 - observed0
    IN  [p_value |-> PValue(d, total_pixels),
         deviation |-> (d * Micro) \div total_pixels,
         suspicious |-> Significant(d, total_pixels) /\ 10 * d > total_pixels]

\* An RS result that marks a channel only when its regular pairs are many.
rs_one_sided(counts) ==
    [rs_score |-> IF counts.pairs > 0
                  THEN (counts.regular_pairs * Micro) \div counts.pairs - Micro \div 2
                  ELSE 0,
     regular_pairs |-> counts.regular_pairs,
     singular_pairs |-> counts.singular_pairs,
     suspicious |-> counts.pairs > 0 /\ 5 * (2 * counts.regular_pairs - counts.pairs) > counts.pairs]

\* One entry of the results of _rs_analysis (lines 130-142).
rs_result(counts) ==
    LET total_pairs == counts.pairs
        regular_pairs == counts.regular_pairs
        rs_ratio == (regular_pairs * Micro) \div total_pairs
        twice == 2 * regular_pairs - total_pairs
    IN  [rs_score |-> IF total_pairs > 0
                      THEN (IF rs_ratio >= Micro \div 2 THEN rs_ratio - Micro \div 2
                            ELSE Micro \div 2 - rs_ratio)
                      ELSE 0,
         regular_pairs |-> regular_pairs,
         singular_pairs |-> counts.singular_pairs,
         suspicious |-> total_pairs > 0
                        /\ 5 * (IF twice >= 0 THEN twice ELSE -twice) > total_pairs]

\* One entry of the results of _bitplane_analysis (lines 175-190); the
\* variance of a plane of n bits with k ones is k * (n - k) / n^2.
bitplane_result(counts) ==
    LET n == counts.total
        x == counts.plane1_ones * (n - counts.plane1_ones)
        higher_bit_variance ==
            ((x * 100000) \div (n * n)) * 10 + ((((x * 100000) % (n * n)) * 10) \div (n * n))
        mean_variance == (counts.block_spread * 15625) \div (64 * counts.blocks)
        variance_ratio == (mean_variance * 1000) \div (higher_bit_variance + 1)
    IN  IF counts.blocks = 0
        THEN [lsb_variance |-> NaN, higher_bit_variance |-> higher_bit_variance,
              variance_ratio |-> NaN, suspicious |-> FALSE]
        ELSE [lsb_variance |-> mean_variance, higher_bit_variance |-> higher_bit_variance,
              variance_ratio |-> variance_ratio,
              suspicious |-> variance_ratio > 2000 \/ variance_ratio < 500]

\* The confidence of one suspicious result of each detector (lines 267-269,
\* 275, 281-286).
chi_confidence(result) ==
    LET deviation_score == Min(result.deviation * 2, Micro)
        p_value_score   == Micro - result.p_value * 1000
    IN  (deviation_score + p_value_score) \div 2

rs_confidence(result) == Min(result.rs_score * 5, Micro)

bp_confidence(result) ==
    IF result.variance_ratio > 2000
    THEN (IF result.variance_ratio >= 5000 THEN Micro
          ELSE ((result.variance_ratio - 2000) * 1000) \div 3)
    ELSE IF result.variance_ratio < 500
    THEN Min((500 - result.variance_ratio) * 2000, Micro)
    ELSE 0

\* The channels of the suspicious entries, in the order of the loop.
SuspiciousChannels(results) ==
    SelectSeq(AnalysisChannels, LAMBDA channel : results[channel].suspicious)

\* The list confidence_scores at the end of the three loops.
confidence_scores(chi_square_results, rs_results, bitplane_results) ==
    LET chi == SuspiciousChannels(chi_square_results)
        rs  == SuspiciousChannels(rs_results)
        bp  == SuspiciousChannels(bitplane_results)
    IN  Tabulate(LAMBDA k : chi_confidence(chi_square_results[chi[k]]), Len(chi))
        \o Tabulate(LAMBDA k : rs_confidence(rs_results[rs[k]]), Len(rs))
        \o Tabulate(LAMBDA k : bp_confidence(bitplane_results[bp[k]]), Len(bp))

\* max(confidence_scores)
MaxOf(scores) ==
    LET larger(acc, k) == IF scores[k] > acc THEN scores[k] ELSE acc
    IN  FoldRange(larger, scores[1], 2, Len(scores))

\* A confidence that is the mean of the scores.
mean_confidence(chi_square_results, rs_results, bitplane_results) ==
    LET scores == confidence_scores(chi_square_results, rs_results, bitplane_results)
    IN  IF scores # << >>
        THEN SumRange(LAMBDA k : scores[k], 1, Len(scores)) \div Len(scores)
        ELSE 0

\* A confidence that is never below the first band.
confidence_floor(chi_square_results, rs_results, bitplane_results) ==
    LET scores == confidence_scores(chi_square_results, rs_results, bitplane_results)
    IN  IF scores # << >> THEN Min(MaxOf(scores), Micro) ELSE 300000

calculate_confidence(chi_square_results, rs_results, bitplane_results) ==
    LET scores == confidence_scores(chi_square_results, rs_results, bitplane_results)
    IN  IF scores # << >> THEN Min(MaxOf(scores), Micro) ELSE 0

\* f"{p_value:.3f}" of a p-value in thousandths
FormatP(p_value) ==
    LET frac == p_value % 1000
    IN  ToString(p_value \div 1000) \o "."
            \o (IF frac < 10 THEN "00" ELSE IF frac < 100 THEN "0" ELSE "") \o ToString(frac)

\* separator.join(parts)
Join(separator, parts) ==
    LET add(acc, k) == acc \o separator \o parts[k]
    IN  IF parts = << >> THEN "" ELSE FoldRange(add, parts[1], 2, Len(parts))

\* The list explanations before it is joined (lines 301-327).
generate_explanation(chi_square_results, rs_results, bitplane_results, confidence) ==
    LET chi == SuspiciousChannels(chi_square_results)
        rs  == SuspiciousChannels(rs_results)
        bp  == SuspiciousChannels(bitplane_results)
        suspicious_channels == chi
        band == IF confidence < 300000
                THEN "No significant steganographic artifacts detected."
                ELSE IF confidence < 600000
                THEN "Some statistical anomalies detected, but inconclusive."
                ELSE "Strong evidence of steganographic content detected."
    IN  << band >>
        \o Tabulate(LAMBDA k : Upper(chi[k]) \o " channel shows unnatural LSB distribution (p="
                                   \o FormatP(chi_square_results[chi[k]].p_value) \o ").",
                    Len(chi))
        \o Tabulate(LAMBDA k : Upper(rs[k])
                                   \o " channel RS analysis indicates potential LSB manipulation.",
                    Len(rs))
        \o Tabulate(LAMBDA k : Upper(bp[k])
                                   \o " channel bit-plane analysis shows unusual noise patterns.",
                    Len(bp))
        \o (IF suspicious_channels # << >>
            THEN << "Most suspicious channels: "
                        \o Join(", ", Tabulate(LAMBDA k : Upper(suspicious_channels[k]),
                                               Len(suspicious_channels))) >>
            ELSE << >>)

\* What analyze returns (lines 56-68) for the counts of the three channels;
\* the visualizations are left out.
AnalysisOf(source, counts) ==
    Bind([channel \in { "red", "green", "blue" } |-> chi_square_result(counts[channel])],
         LAMBDA chi_square_results :
    Bind([channel \in { "red", "green", "blue" } |-> rs_result(counts[channel])],
         LAMBDA rs_results :
    Bind([channel \in { "red", "green", "blue" } |-> bitplane_result(counts[channel])],
         LAMBDA bitplane_results :
    Bind(calculate_confidence(chi_square_results, rs_results, bitplane_results),
         LAMBDA confidence :
    Bind(generate_explanation(chi_square_results, rs_results, bitplane_results, confidence),
         LAMBDA explanations :
    [status |-> "ok", source |-> source, counts |-> counts,
     chi_square |-> chi_square_results, rs_score |-> rs_results,
     bitplane_stats |-> bitplane_results, confidence |-> confidence,
     explanations |-> explanations, explanation |-> Join(" ", explanations)])))))

\* analyze(image_path) on the image the file holds (lines 41-50).
analyze(source, file) ==
    Bind(OpenImage(file), LAMBDA img :
    AnalysisOf(source, [channel \in { "red", "green", "blue" } |->
                           ChannelCounts(img, ChannelMap(channel))]))

----------------------------------------------------------------------------
(* Analysis: of a carrier file, of the stego image an embedding returned,  *)
(* or of three channels of given counts.                                   *)

\* The images analyze is called on.
AnalysisTargets ==
    { [source |-> "file", img |-> fs[n]] : n \in { m \in FileNames : fs[m] # NoFile } }
        \cup (IF stego # NoFile THEN { [source |-> "stego", img |-> stego] } ELSE { })

\* analysis_engine.analyze(image_path)
Analyze ==
    /\ an.status = "none"
    /\ \E target \in AnalysisTargets :
         \E result \in { analyze(target.source, target.img) } : an' = result
    /\ UNCHANGED << fs, stego, emb, tamper, ext, calls, unit >>

\* The counts of a plane of BigHeight x BigWidth samples: ones of the LSB
\* plane, regular pairs, and the 8x8 block with the ones of bit-plane 1.
PlaneCounts(ones, regular_pairs, bitplanes) ==
    [total |-> BigHeight * BigWidth, ones |-> ones,
     pairs |-> BigHeight * (BigWidth - 1), regular_pairs |-> regular_pairs,
     singular_pairs |-> BigHeight * (BigWidth - 1) - regular_pairs,
     blocks |-> bitplanes[1], block_spread |-> bitplanes[2], plane1_ones |-> bitplanes[3]]

\* The counts drawn for the channels red, green, blue.
OnesDrawn == { << 90, 90, 90 >>, << 81, 81, 81 >>, << 76, 90, 90 >>, << 90, 0, 76 >> }

RegularDrawn == { << 84, 84, 84 >>, << 84, 101, 84 >>, << 2, 84, 168 >>, << 68, 100, 101 >> }

BitplanesDrawn ==
    { << << 1, 1024, 90 >>, << 1, 1024, 90 >>, << 1, 1024, 90 >> >>,
      << << 0, 0, 90 >>, << 0, 0, 90 >>, << 0, 0, 90 >> >>,
      << << 1, 1024, 90 >>, << 1, 1024, 10 >>, << 1, 1024, 20 >> >>,
      << << 1, 0, 90 >>, << 1, 1024, 90 >>, << 1, 1024, 0 >> >>,
      << << 1, 1024, 15 >>, << 1, 1024, 90 >>, << 1, 1024, 90 >> >> }

\* _calculate_confidence and _generate_explanation on the results of the
\* detectors for the counts drawn.
Aggregate ==
    /\ an.status = "none"
    /\ emb.status = "none"
    /\ \E ones \in OnesDrawn, regular \in RegularDrawn, bitplanes \in BitplanesDrawn :
         \E result \in { AnalysisOf("counts",
                             [channel \in { "red", "green", "blue" } |->
                                 PlaneCounts(ones[ChannelMap(channel) + 1],
                                             regular[ChannelMap(channel) + 1],
                                             bitplanes[ChannelMap(channel) + 1])]) } :
           an' = result
    /\ UNCHANGED << fs, stego, emb, tamper, ext, calls, unit >>

NextAn == Embed \/ Analyze \/ Aggregate

\* The images an analysis run starts from: the carriers, an image nine
\* rows high and two blocks wide, and one that is a single column.
AnalysisImages ==
    Carriers \cup { [name |-> << WorkDir, "carrier.png" >>, img |-> MakeImage("RGB", 9, 16)],
                    [name |-> << WorkDir, "carrier.png" >>, img |-> MakeImage("RGB", 9, 1)] }

InitAn ==
    /\ \E c \in AnalysisImages :
         fs = [n \in FileNames |-> IF n = c.name THEN c.img ELSE NoFile]
    /\ stego = NoFile
    /\ emb = EmbNone
    /\ tamper = -1
    /\ ext = ExtNone
    /\ calls = << >>
    /\ unit = UnitNone
    /\ an = AnNone

SpecAn == InitAn /\ [][NextAn]_vars

ChannelNames == { "red", "green", "blue" }

\* The per-channel confidences of the suspicious results of the analysis.
ChannelConfidences ==
    { (Min(2 * an.chi_square[c].deviation, Micro) + (Micro - 1000 * an.chi_square[c].p_value))
          \div 2 : c \in { x \in ChannelNames : an.chi_square[x].suspicious } }
    \cup { Min(5 * an.rs_score[c].rs_score, Micro) :
             c \in { x \in ChannelNames : an.rs_score[x].suspicious } }
    \cup { IF an.bitplane_stats[c].variance_ratio >= 5000 THEN Micro
           ELSE IF an.bitplane_stats[c].variance_ratio > 2000
           THEN ((an.bitplane_stats[c].variance_ratio - 2000) * 1000) \div 3
           ELSE Min((500 - an.bitplane_stats[c].variance_ratio) * 2000, Micro) :
             c \in { x \in ChannelNames : an.bitplane_stats[x].suspicious } }

\* C16.  The aggregate confidence lies in [0,1] and is the maximum of the
\* per-channel confidences of the suspicious results (chi-square: the mean of
\* min(2*deviation, 1) and 1 - p; RS: min(5*score, 1); bit-plane:
\* min((ratio-2)/3, 1) or min((0.5-ratio)/0.5, 1)); no suspicious result has
\* a confidence above it.
AggregateConfidence ==
    an.status = "ok" =>
        /\ 0 <= an.confidence /\ an.confidence <= Micro
        /\ \A score \in ChannelConfidences : score <= an.confidence
        /\ ChannelConfidences # { } => an.confidence \in ChannelConfidences

\* Suspicious results of different confidences, none of them 1.
MixedConfidences ==
    /\ an.status = "ok"
    /\ Cardinality(ChannelConfidences) >= 2
    /\ an.confidence < Micro
    /\ an.confidence > 0

\* No channel is marked suspicious by any of the three detectors.
NoneSuspicious ==
    /\ an.status = "ok"
    /\ \A c \in ChannelNames :
         /\ ~an.chi_square[c].suspicious
         /\ ~an.rs_score[c].suspicious
         /\ ~an.bitplane_stats[c].suspicious

\* C17.  When no channel is marked suspicious by any detector the aggregate
\* confidence is exactly 0 and the explanation is the "no significant"
\* sentence alone, with no sentence for a channel.
QuietAnalysis ==
    NoneSuspicious =>
        /\ an.confidence = 0
        /\ an.explanations = << "No significant steganographic artifacts detected." >>
        /\ an.explanation = "No significant steganographic artifacts detected."

\* An analysis of channels that sit on the thresholds without passing them:
\* a deviation of exactly 0.1.
QuietOnThreshold ==
    /\ NoneSuspicious
    /\ \A c \in ChannelNames : an.chi_square[c].deviation = 100000
    /\ an.confidence = 0

\* The channels marked suspicious by some detector.
MarkedChannels ==
    { c \in ChannelNames : \/ an.chi_square[c].suspicious
                           \/ an.rs_score[c].suspicious
                           \/ an.bitplane_stats[c].suspicious }

\* The suspicious results: one for each detector and channel it marked.
MarkedResults ==
    Cardinality({ c \in ChannelNames : an.chi_square[c].suspicious })
      + Cardinality({ c \in ChannelNames : an.rs_score[c].suspicious })
      + Cardinality({ c \in ChannelNames : an.bitplane_stats[c].suspicious })

\* The summaries that list exactly the marked channels, in any order.
Summaries ==
    LET n == Cardinality(MarkedChannels)
        orders == { f \in [1..n -> MarkedChannels] : \A i, j \in 1..n : f[i] = f[j] => i = j }
    IN  { "Most suspicious channels: " \o Join(", ", [i \in 1..n |-> Upper(f[i])]) :
            f \in orders }

\* C18.  Whenever a channel is marked suspicious by a detector, the
\* explanation holds, after the banding sentence, one sentence for each
\* suspicious result, and ends with a summary that lists the name of every
\* channel that was marked suspicious.
ExplanationNamesMarked ==
    (an.status = "ok" /\ MarkedChannels # { }) =>
        /\ Len(an.explanations) = 1 + MarkedResults + 1
        /\ an.explanations[Len(an.explanations)] \in Summaries

\* analyze ran on the image an embedding of bit depth 1 over the three
\* channels returned.
AnalyzedEmbedding ==
    /\ an.status = "ok"
    /\ an.source = "stego"
    /\ emb.cfg.bits = 1
    /\ emb.cfg.channels = DefaultChannels
    /\ Len(emb.payload) > 0

\* C19.  Detector sanity: for an image into which a payload was embedded
\* with bit depth 1 across the three channels, at least one channel is
\* reported suspicious by the chi-square detector or by the bit-plane one.
EmbeddingDetected ==
    AnalyzedEmbedding =>
        \E channel \in { "red", "green", "blue" } :
            an.chi_square[channel].suspicious \/ an.bitplane_stats[channel].suspicious

\* analyze ran on the carrier of pseudo-random samples, nothing embedded.
AnalyzedNoise ==
    /\ an.status = "ok"
    /\ an.source = "file"
    /\ emb.status = "none"
    /\ fs[<< WorkDir, "carrier.png" >>] = NoiseImage

\* C20.  For an image with no embedded payload, of random samples, the RS
\* score of every channel is below 0.1 and the aggregate confidence is
\* below 0.5.
CleanImageQuiet ==
    AnalyzedNoise =>
        /\ \A channel \in { "red", "green", "blue" } : an.rs_score[channel].rs_score < 100000
        /\ an.confidence < 500000

\* The sentences of an explanation that hold the word "steganographic" or
\* the word "lsb", whatever the case of the letters: the first and the third
\* banding sentence, the chi-square sentence and the RS sentence.
WordSentences ==
    { "No significant steganographic artifacts detected.",
      "Strong evidence of steganographic content detected." }
    \cup { Upper(channel) \o " channel shows unnatural LSB distribution (p="
               \o FormatP(p_value) \o ")." : channel \in ChannelNames, p_value \in 0..1000 }
    \cup { Upper(channel) \o " channel RS analysis indicates potential LSB manipulation." :
             channel \in ChannelNames }

\* C21.  For every analysis whose aggregate confidence exceeds 0.3 the
\* explanation contains the word "steganographic" or the word "lsb".
ExplanationMentions ==
    (an.status = "ok" /\ an.confidence > 300000) =>
        \E i \in DOMAIN an.explanations : an.explanations[i] \in WordSentences

\* The image the analysis was made of: the stego image, or the one file.
AnalyzedImage ==
    IF an.source = "stego" THEN OpenImage(stego)
    ELSE OpenImage(TheOne({ fs[n] : n \in { m \in FileNames : fs[m] # NoFile } }))

\* analyze ran on an image.
ImageAnalyzed == an.status = "ok" /\ an.source \in { "file", "stego" }

\* The horizontally adjacent pairs of a channel whose samples differ by at
\* most one: the place (row, col) of the left sample.
CloseNeighbours(img, channel) ==
    { pos \in (0..(img.height - 1)) \X (0..(img.width - 2)) :
        \A x \in { img.data[SampleIndex(Shape(img), << pos[1], pos[2], ChannelMap(channel) >>)] },
           y \in { img.data[SampleIndex(Shape(img), << pos[1], pos[2] + 1, ChannelMap(channel) >>)] } :
          x - y <= 1 /\ y - x <= 1 }

\* C26.  RS pair classification is a partition: for every channel of an
\* H x W image the regular pairs and the singular pairs together are the
\* H*(W-1) horizontally adjacent pairs; a pair is regular exactly when
\* |x-y| <= 1, and the channel is suspicious exactly when
\* |regular/total - 0.5| > 0.1, the score being 0 when there are no pairs.
RsPartition ==
    ImageAnalyzed =>
        \A img \in { AnalyzedImage } : \A channel \in ChannelNames :
          \A total \in { img.height * (img.width - 1) },
             regular \in { Cardinality(CloseNeighbours(img, channel)) } :
            /\ an.rs_score[channel].regular_pairs = regular
            /\ an.rs_score[channel].regular_pairs + an.rs_score[channel].singular_pairs = total
            /\ an.rs_score[channel].suspicious
                 <=> (10 * regular - 5 * total > total \/ 5 * total - 10 * regular > total)
            /\ total = 0 => an.rs_score[channel].rs_score = 0

\* An analysed channel with pairs of both kinds, marked suspicious.
PairsOfBothKinds ==
    /\ ImageAnalyzed
    /\ \E channel \in ChannelNames :
         /\ an.rs_score[channel].regular_pairs > 0
         /\ an.rs_score[channel].singular_pairs > an.rs_score[channel].regular_pairs
         /\ an.rs_score[channel].suspicious

\* C27.  The bit-plane detector evaluates every complete disjoint 8x8 block
\* of the LSB plane and only those: for an H x W channel the number of
\* blocks whose variance is averaged is floor(H/8) * floor(W/8).
BlocksCounted ==
    ImageAnalyzed =>
        \A img \in { AnalyzedImage } : \A channel \in ChannelNames :
          /\ an.counts[channel].blocks = (img.height \div 8) * (img.width \div 8)
          /\ an.counts[channel].blocks > 0 => an.bitplane_stats[channel].lsb_variance # NaN

============================================================================
